---- MODULE Spec2Model ----
(***************************************************************************)
(* Vote ledger, counters, answer acceptance and accounts of the forum      *)
(* backend.                                                                *)
(*                                                                         *)
(* The store is modelled by the tables the handlers address (questions,    *)
(* answers, users, sessions, votes) with the columns their SQL statements  *)
(* name; the unique key of the votes table is the one of the schema.      *)
(* Every executeQuery call is one atomic statement of the store and one    *)
(* step of the request that issues it: requests interleave between         *)
(* statements.                                                             *)
(***************************************************************************)
EXTENDS Integers, FiniteSets, Sequences, TLC

(* ---------------------------- bounds ---------------------------------- *)
NUsers == 3
NQuestions == 2
MaxAnswers == 3
NProcs == 2
MaxCalls == 3
MaxRequests == 2
MaxTime == 3
NTags == 1
MaxTagList == 2
MaxInitialVotes == 4

\* expiresIn: process.env.JWT_EXPIRES_IN, and the 24 hours of a session, in
\* ticks of the clock
JwtExpiresIn == 3
SessionLife == 2

\* maxTags = 5, the default of the TagInput prop
maxTags == 5

Users == 1..NUsers
Questions == 1..NQuestions
AnswerIds == 1..MaxAnswers
Procs == 1..NProcs
VoteValues == {1, -1}
TargetTypes == {"question", "answer"}

VARIABLES users, sessions, questions, answers, votes, reqs, response,
          nextAnswerId, calls, now, tags, question_tags, votingButtons,
          tagInput, revoked

\* the tag tables of the store, and the widgets of the client
tagTables == <<tags, question_tags>>
widgets == <<votingButtons, tagInput>>

\* revoked is a history variable: the tokens whose logout has been answered
vars ==
  <<users, sessions, questions, answers, votes, reqs, response, nextAnswerId,
    calls, now, tagTables, widgets, revoked>>

(* ------------------------- request records ---------------------------- *)
NoVote == [id |-> 0, value |-> 0]

\* no bearer token
NoToken == [userId |-> 0, iat |-> 0, signed |-> FALSE]

Idle ==
  [op |-> "none", pc |-> "idle", userId |-> 0, targetType |-> "none",
   targetId |-> 0, value |-> 0, branch |-> "none", existingVote |-> NoVote,
   authorId |-> 0, questionId |-> 0, failedAt |-> "none", username |-> 0,
   password |-> 0, bio |-> 0, token |-> NoToken, expiresAt |-> 0,
   tagNames |-> <<>>, tagId |-> 0]

NoResponse == [op |-> "none", res |-> "none"]

\* no handler runs in slot p: the slot has no request, or its request has
\* passed the middleware and its handler has not run a statement yet
Free(p) == reqs[p].pc \in {"idle", "next"}

Quiescent == \A p \in Procs : Free(p)

\* requests that come one at a time are all served in the same slot
SerialSlot == CHOOSE p \in Procs : TRUE

\* the request goes on to its next statement
Continue(p, r) ==
  /\ reqs' = [reqs EXCEPT ![p] = r]
  /\ UNCHANGED response

\* res.json(...): the request is answered and its handler ends; response is
\* the last response sent
Respond(p, op, res) ==
  /\ reqs' = [reqs EXCEPT ![p] = Idle]
  /\ response' = [op |-> op, res |-> res]

(* ------------------------------ store --------------------------------- *)
\* a lookup that takes every identifier for a row
TargetExistsAlways(qs, as, targetType, targetId) == TRUE

\* questionResult.data.length > 0 / answerResult.data.length > 0
TargetExists(qs, as, targetType, targetId) ==
  IF targetType = "question" THEN targetId \in DOMAIN qs
                             ELSE targetId \in DOMAIN as

TargetAuthor(qs, as, targetType, targetId) ==
  IF targetType = "question" THEN qs[targetId].author_id
                             ELSE as[targetId].author_id

\* SELECT id, value FROM votes WHERE user_id = ? AND target_id = ? AND target_type = ?
SelectVotes(vs, userId, targetId, targetType) ==
  {v \in vs : v.user_id = userId /\ v.target_id = targetId
              /\ v.target_type = targetType}

\* uuidv4(): an identifier no row and no request holds; the least one stands for it
NewVoteId ==
  LET used == {v.id : v \in votes} \cup {reqs[p].existingVote.id : p \in Procs}
  IN  CHOOSE i \in 1..(Cardinality(used) + 1) :
        i \notin used /\ \A j \in 1..(i - 1) : j \in used

\* a votes table without its unique key
UniqueVoteNotDeclared(vs, row) == FALSE

\* a unique key that leaves the user out
UniqueVoteViolatedPerTarget(vs, row) ==
  \E v \in vs : v.target_type = row.target_type /\ v.target_id = row.target_id

\* UNIQUE KEY unique_vote (user_id, target_type, target_id)
UniqueVoteViolated(vs, row) ==
  \E v \in vs : v.user_id = row.user_id /\ v.target_type = row.target_type
                /\ v.target_id = row.target_id

\* INSERT INTO votes ...: a duplicate key makes the statement fail, and
\* executeQuery turns the failure into a return value nobody reads
InsertVote(vs, row) ==
  IF UniqueVoteViolated(vs, row) THEN vs ELSE vs \cup {row}

\* the DELETE matching the vote id against the user id
DeleteVoteByUserId(vs, id) == {v \in vs : v.user_id # id}

\* DELETE FROM votes WHERE id = ?
DeleteVote(vs, id) == {v \in vs : v.id # id}

\* the change made as a DELETE and an INSERT under a new id
UpdateVoteValueReinserted(vs, id, value) ==
  {IF v.id = id THEN [v EXCEPT !.value = value, !.id = id + 1] ELSE v : v \in vs}

\* UPDATE votes SET value = ? WHERE id = ?
UpdateVoteValue(vs, id, value) ==
  {IF v.id = id THEN [v EXCEPT !.value = value] ELSE v : v \in vs}

\* the remove branch adding the value as the create branch does
RemoveDeltaAdded(value) == value

\* votes = votes - ?            (remove branch)
RemoveDelta(value) == 0 - value

\* the change branch adding the new vote without removing the old one
ChangeDeltaNewOnly(oldValue, value) == value

\* votes = votes - ? + ?        (change branch)
ChangeDelta(oldValue, value) == 0 - oldValue + value

\* votes = votes + ?            (create branch)
CreateDelta(value) == value

BranchDelta(r) ==
  CASE r.branch = "removed" -> RemoveDelta(r.value)
    [] r.branch = "updated" -> ChangeDelta(r.existingVote.value, r.value)
    [] r.branch = "created" -> CreateDelta(r.value)

\* the counter update writing the delta over the stored count
UpdateVotesCountAbsolute(rows, id, delta) ==
  IF id \in DOMAIN rows THEN [rows EXCEPT ![id].votes = delta] ELSE rows

\* UPDATE ${targetType}s SET votes = votes + delta WHERE id = ?
UpdateVotesCount(rows, id, delta) ==
  IF id \in DOMAIN rows THEN [rows EXCEPT ![id].votes = @ + delta] ELSE rows

\* UPDATE users SET reputation = reputation + delta WHERE id = ?
UpdateReputation(us, id, delta) ==
  IF id \in DOMAIN us THEN [us EXCEPT ![id].reputation = @ + delta] ELSE us

\* identifiers a registration and a new question can take
UserIds == 1..(NUsers + 1)
QuestionIds == 1..(NQuestions + 1)

\* user names (user u registered as name u), passwords and bio texts; a
\* parameter bound to NULL is 0
Names == 1..(NUsers + 1)
Passwords == {1, 2}
Bios == {1, 2}
NULL == 0

\* bcrypt.hash(password, saltRounds), the salt left out
Hash(password) == password + 10

\* bcrypt.compare(password, hash)
Compare(password, hash) == hash = Hash(password)

\* SELECT ... FROM users WHERE username = ?
SelectUsersByName(us, username) ==
  {u \in DOMAIN us : us[u].username = username}

\* uuidv4() of a new user: the least identifier no user has
NewUserId == CHOOSE i \in UserIds : i \notin DOMAIN users
               /\ \A j \in 1..(i - 1) : j \in DOMAIN users

\* INSERT INTO users (id, username, email, password, bio, reputation)
\* VALUES (?, ?, ?, ?, ?, 0): username is UNIQUE
InsertUser(us, id, username, password, bio) ==
  IF SelectUsersByName(us, username) # {} THEN us
  ELSE [u \in DOMAIN us \cup {id} |->
          IF u = id
          THEN [reputation |-> 0, username |-> username,
                password |-> password, bio |-> bio]
          ELSE us[u]]

\* the profile written as a whole row, the other columns at their defaults
UpdateUserReplaced(us, id, username, bio) ==
  IF id \notin DOMAIN us THEN us
  ELSE [us EXCEPT ![id] = [reputation |-> 0,
                           username |-> IF username = NULL THEN @.username
                                                           ELSE username,
                           password |-> @.password,
                           bio |-> IF bio = NULL THEN @.bio ELSE bio]]

\* UPDATE users SET username = COALESCE(?, username), ..., bio =
\* COALESCE(?, bio), ... WHERE id = ?: a username another row has makes the
\* statement fail (email and avatar are columns like username and bio)
UpdateUser(us, id, username, bio) ==
  IF id \notin DOMAIN us THEN us
  ELSE IF username # NULL /\ SelectUsersByName(us, username) \ {id} # {} THEN us
  ELSE [us EXCEPT ![id].username = IF username = NULL THEN @ ELSE username,
                  ![id].bio = IF bio = NULL THEN @ ELSE bio]

\* UPDATE users SET password = ?, updated_at = NOW() WHERE id = ?
UpdatePassword(us, id, hash) ==
  IF id \in DOMAIN us THEN [us EXCEPT ![id].password = hash] ELSE us

\* jwt.sign({ userId }, JWT_SECRET, { expiresIn }): the payload with iat, the
\* second of signing, and the signature of the secret; the same payload in
\* the same second gives the same token
Sign(userId, iat) == [userId |-> userId, iat |-> iat, signed |-> TRUE]

\* jwt.verify(token, JWT_SECRET): "ok", or the name of the error thrown
Verify(token, clock) ==
  IF ~token.signed THEN "JsonWebTokenError"
  ELSE IF clock >= token.iat + JwtExpiresIn THEN "TokenExpiredError"
  ELSE "ok"

\* uuidv4() of a session
NewSessionId ==
  LET used == {s.id : s \in sessions}
  IN  CHOOSE i \in 1..(Cardinality(used) + 1) :
        i \notin used /\ \A j \in 1..(i - 1) : j \in used

\* INSERT INTO sessions (id, user_id, token, expires_at): a session maps its
\* token to a user and an expiry, and no two sessions hold one token
InsertSession(ss, id, userId, token, expiresAt) ==
  IF \E s \in ss : s.token = token
  THEN ss
  ELSE ss \cup {[id |-> id, user_id |-> userId, token |-> token,
                 expires_at |-> expiresAt]}

\* the session lookup without its expiry condition
SelectSessionsOfAnyAge(ss, userId, token, clock) ==
  {s \in ss : s.user_id = userId /\ s.token = token}

\* SELECT * FROM sessions WHERE user_id = ? AND token = ? AND
\* expires_at > NOW()
SelectSessions(ss, userId, token, clock) ==
  {s \in ss : s.user_id = userId /\ s.token = token /\ s.expires_at > clock}

\* DELETE FROM sessions WHERE token = ?
DeleteSession(ss, token) == {s \in ss : s.token # token}

\* uuidv4() of a new question: the least identifier no question has
NewQuestionId == CHOOSE i \in QuestionIds : i \notin DOMAIN questions
                   /\ \A j \in 1..(i - 1) : j \in DOMAIN questions

\* INSERT INTO questions (id, title, content, author_id): the counters take
\* their defaults
InsertQuestion(qs, id, authorId) ==
  [q \in DOMAIN qs \cup {id} |->
     IF q = id
     THEN [author_id |-> authorId, votes |-> 0, views |-> 0,
           is_answered |-> FALSE]
     ELSE qs[q]]

\* the UPDATE writing a value instead of adding to the stored one
IncrementViewsAbsolute(qs, id) ==
  IF id \in DOMAIN qs THEN [qs EXCEPT ![id].views = 1] ELSE qs

\* UPDATE questions SET views = views + 1 WHERE id = ?
IncrementViews(qs, id) ==
  IF id \in DOMAIN qs THEN [qs EXCEPT ![id].views = @ + 1] ELSE qs

(* ------------------------------ Init ---------------------------------- *)
Init ==
  /\ users = [u \in Users |->
                [reputation |-> 0, username |-> u, password |-> Hash(1),
                 bio |-> 1]]
  /\ sessions = {}
  /\ questions = [q \in Questions |->
                    [author_id |-> q, votes |-> 0, views |-> 0,
                     is_answered |-> FALSE]]
  /\ answers = [a \in {1, 2} |->
                  [question_id |-> a, author_id |-> 3 - a, votes |-> 0,
                   is_accepted |-> FALSE]]
  /\ votes = {}
  /\ reqs = [p \in Procs |-> Idle]
  /\ response = NoResponse
  /\ nextAnswerId = 3
  /\ calls = 0
  /\ now = 0
  /\ revoked = {}
  /\ tags = [t \in 1..NTags |-> [name |-> t, count |-> 0]]
  /\ question_tags = {}
  /\ votingButtons = [initialVotes |-> 0, userVote |-> "null", votes |-> 0,
                      currentVote |-> "null", voteType |-> "null"]
  /\ tagInput = [tags |-> <<>>, inputValue |-> <<>>,
                 call |-> [fn |-> "none", tag |-> <<>>]]

(* --------------------------- POST /votes ------------------------------ *)
\* The request has passed verifyToken and voteValidation; it enters the
\* store with its first statement.  Check if target exists
VoteTargetExists(p, userId, targetType, targetId, value) ==
  /\ Free(p)
  /\ calls < MaxCalls
  /\ calls' = calls + 1
  /\ IF TargetExists(questions, answers, targetType, targetId)
     THEN Continue(p, [Idle EXCEPT !.op = "vote", !.pc = "targetAuthor",
                                   !.userId = userId, !.targetType = targetType,
                                   !.targetId = targetId, !.value = value])
     ELSE Respond(p, "vote", "404")
  /\ UNCHANGED <<now, revoked, tagTables, widgets, sessions, users, questions,
                 answers, votes, nextAnswerId>>

\* Check if user is voting on their own content; data[0] of an empty result
\* is undefined and reading its author_id throws into the catch block
VoteTargetAuthor(p) ==
  LET r == reqs[p] IN
  /\ r.op = "vote" /\ r.pc = "targetAuthor"
  /\ IF ~TargetExists(questions, answers, r.targetType, r.targetId)
     THEN Respond(p, "vote", "500")
     ELSE IF TargetAuthor(questions, answers, r.targetType, r.targetId) = r.userId
     THEN Respond(p, "vote", "400")
     ELSE Continue(p, [r EXCEPT !.pc = "existingVote"])
  /\ UNCHANGED <<now, revoked, tagTables, widgets, sessions, users, questions,
                 answers, votes, nextAnswerId, calls>>

\* Check if user already voted, and take the branch
VoteExistingVote(p) ==
  LET r == reqs[p]
      found == SelectVotes(votes, r.userId, r.targetId, r.targetType)
  IN
  /\ r.op = "vote" /\ r.pc = "existingVote"
  /\ IF found # {}
     THEN \E v \in found :
            Continue(p, [r EXCEPT !.pc = "ledger",
                                  !.existingVote = [id |-> v.id, value |-> v.value],
                                  !.branch = IF v.value = r.value THEN "removed"
                                                                  ELSE "updated"])
     ELSE Continue(p, [r EXCEPT !.pc = "ledger", !.branch = "created"])
  /\ UNCHANGED <<now, revoked, tagTables, widgets, sessions, users, questions,
                 answers, votes, nextAnswerId, calls>>

\* DELETE FROM votes / UPDATE votes SET value / INSERT INTO votes
VoteLedger(p) ==
  LET r == reqs[p] IN
  /\ r.op = "vote" /\ r.pc = "ledger"
  /\ votes' =
       CASE r.branch = "removed" -> DeleteVote(votes, r.existingVote.id)
         [] r.branch = "updated" ->
              UpdateVoteValue(votes, r.existingVote.id, r.value)
         [] r.branch = "created" ->
              InsertVote(votes, [id |-> NewVoteId, user_id |-> r.userId,
                                 target_id |-> r.targetId,
                                 target_type |-> r.targetType,
                                 value |-> r.value])
  /\ Continue(p, [r EXCEPT !.pc = "count"])
  /\ UNCHANGED <<now, revoked, tagTables, widgets, sessions, users, questions,
                 answers, nextAnswerId, calls>>

\* Update target vote count; a vote on a question is answered here
VoteCount(p) ==
  LET r == reqs[p] IN
  /\ r.op = "vote" /\ r.pc = "count"
  /\ IF r.targetType = "question"
     THEN /\ questions' = UpdateVotesCount(questions, r.targetId, BranchDelta(r))
          /\ Respond(p, "vote", r.branch)
          /\ UNCHANGED answers
     ELSE /\ answers' = UpdateVotesCount(answers, r.targetId, BranchDelta(r))
          /\ Continue(p, [r EXCEPT !.pc = "author"])
          /\ UNCHANGED questions
  /\ UNCHANGED <<now, revoked, tagTables, widgets, sessions, users, votes,
                 nextAnswerId, calls>>

\* SELECT author_id FROM answers WHERE id = ?
VoteAuthor(p) ==
  LET r == reqs[p] IN
  /\ r.op = "vote" /\ r.pc = "author"
  /\ IF r.targetId \in DOMAIN answers
     THEN Continue(p, [r EXCEPT !.pc = "reputation",
                                !.authorId = answers[r.targetId].author_id])
     ELSE Respond(p, "vote", r.branch)
  /\ UNCHANGED <<now, revoked, tagTables, widgets, sessions, users, questions,
                 answers, votes, nextAnswerId, calls>>

\* Update user reputation if voting on answer, then answer the request
VoteReputation(p) ==
  LET r == reqs[p] IN
  /\ r.op = "vote" /\ r.pc = "reputation"
  /\ users' = UpdateReputation(users, r.authorId, BranchDelta(r))
  /\ Respond(p, "vote", r.branch)
  /\ UNCHANGED <<now, revoked, tagTables, widgets, sessions, questions,
                 answers, votes, nextAnswerId, calls>>

VoteStep(p) ==
  \/ VoteTargetAuthor(p)
  \/ VoteExistingVote(p)
  \/ VoteLedger(p)
  \/ VoteCount(p)
  \/ VoteAuthor(p)
  \/ VoteReputation(p)

VoteStart(p) ==
  \E u \in Users, tt \in TargetTypes, v \in VoteValues :
    \E t \in (IF tt = "question" THEN Questions ELSE AnswerIds) :
      VoteTargetExists(p, u, tt, t, v)

(* --------------------------- POST /answers ---------------------------- *)
\* const answerId = uuidv4(): answers are numbered in the order of creation.
\* Check if question exists
CreateAnswerQuestionExists(p, userId, questionId) ==
  /\ Free(p)
  /\ nextAnswerId <= MaxAnswers
  /\ nextAnswerId' = nextAnswerId + 1
  /\ IF questionId \in DOMAIN questions
     THEN Continue(p, [Idle EXCEPT !.op = "createAnswer", !.pc = "insert",
                                   !.userId = userId, !.targetId = nextAnswerId,
                                   !.questionId = questionId])
     ELSE Respond(p, "createAnswer", "404")
  /\ UNCHANGED <<now, revoked, tagTables, widgets, sessions, users, questions,
                 answers, votes, calls>>

\* INSERT INTO answers (id, content, author_id, question_id): votes and
\* is_accepted take their defaults; the foreign key needs the question
InsertAnswer(as, id, authorId, questionId) ==
  [a \in DOMAIN as \cup {id} |->
     IF a = id
     THEN [question_id |-> questionId, author_id |-> authorId, votes |-> 0,
           is_accepted |-> FALSE]
     ELSE as[a]]

CreateAnswerInsert(p) ==
  LET r == reqs[p] IN
  /\ r.op = "createAnswer" /\ r.pc = "insert"
  /\ IF r.questionId \in DOMAIN questions
     THEN /\ answers' = InsertAnswer(answers, r.targetId, r.userId, r.questionId)
          /\ Continue(p, [r EXCEPT !.pc = "read"])
     ELSE /\ UNCHANGED answers
          /\ Respond(p, "createAnswer", "500")
  /\ UNCHANGED <<now, revoked, tagTables, widgets, sessions, users, questions,
                 votes, nextAnswerId, calls>>

\* Get created answer with author info
CreateAnswerRead(p) ==
  LET r == reqs[p] IN
  /\ r.op = "createAnswer" /\ r.pc = "read"
  /\ Respond(p, "createAnswer", "201")
  /\ UNCHANGED <<now, revoked, tagTables, widgets, sessions, users, questions,
                 answers, votes, nextAnswerId, calls>>

(* ------------------------- DELETE /answers/:id ------------------------ *)
\* Check ownership
DeleteAnswerOwnership(p, userId, id) ==
  /\ Free(p)
  /\ IF id \notin DOMAIN answers
     THEN Respond(p, "deleteAnswer", "404")
     ELSE IF answers[id].author_id # userId
     THEN Respond(p, "deleteAnswer", "403")
     ELSE Continue(p, [Idle EXCEPT !.op = "deleteAnswer", !.pc = "delete",
                                   !.userId = userId, !.targetId = id])
  /\ UNCHANGED <<now, revoked, tagTables, widgets, sessions, users, questions,
                 answers, votes, nextAnswerId, calls>>

\* DELETE FROM answers WHERE id = ?
DeleteAnswerRow(as, id) == [a \in DOMAIN as \ {id} |-> as[a]]

DeleteAnswerDelete(p) ==
  LET r == reqs[p] IN
  /\ r.op = "deleteAnswer" /\ r.pc = "delete"
  /\ answers' = DeleteAnswerRow(answers, r.targetId)
  /\ Respond(p, "deleteAnswer", "200")
  /\ UNCHANGED <<now, revoked, tagTables, widgets, sessions, users, questions,
                 votes, nextAnswerId, calls>>

(* ----------------------- POST /answers/:id/accept --------------------- *)
\* the lookup without the check of the question's owner
AcceptAnswerByAnyone(p, userId, id) ==
  /\ Free(p)
  /\ IF id \notin DOMAIN answers
        \/ answers[id].question_id \notin DOMAIN questions
     THEN Respond(p, "accept", "404")
     ELSE Continue(p, [Idle EXCEPT !.op = "accept", !.pc = "unaccept",
                                   !.userId = userId, !.targetId = id,
                                   !.questionId = answers[id].question_id])
  /\ UNCHANGED <<now, revoked, tagTables, widgets, sessions, users, questions,
                 answers, votes, nextAnswerId, calls>>

\* Get answer with question info, and check if user owns the question
AcceptAnswer(p, userId, id) ==
  /\ Free(p)
  /\ IF id \notin DOMAIN answers
        \/ answers[id].question_id \notin DOMAIN questions
     THEN Respond(p, "accept", "404")
     ELSE IF questions[answers[id].question_id].author_id # userId
     THEN Respond(p, "accept", "403")
     ELSE Continue(p, [Idle EXCEPT !.op = "accept", !.pc = "unaccept",
                                   !.userId = userId, !.targetId = id,
                                   !.questionId = answers[id].question_id])
  /\ UNCHANGED <<now, revoked, tagTables, widgets, sessions, users, questions,
                 answers, votes, nextAnswerId, calls>>

\* the clearing statement matching the question id against the answer id
UnacceptAllById(as, questionId) ==
  [a \in DOMAIN as |->
     IF a = questionId THEN [as[a] EXCEPT !.is_accepted = FALSE] ELSE as[a]]

\* the clearing statement without its WHERE clause
UnacceptAllEverywhere(as, questionId) ==
  [a \in DOMAIN as |-> [as[a] EXCEPT !.is_accepted = FALSE]]

\* UPDATE answers SET is_accepted = FALSE WHERE question_id = ?
UnacceptAll(as, questionId) ==
  [a \in DOMAIN as |->
     IF as[a].question_id = questionId
     THEN [as[a] EXCEPT !.is_accepted = FALSE] ELSE as[a]]

\* UPDATE answers SET is_accepted = TRUE WHERE id = ?
AcceptSelected(as, id) ==
  IF id \in DOMAIN as THEN [as EXCEPT ![id].is_accepted = TRUE] ELSE as

\* UPDATE questions SET is_answered = TRUE WHERE id = ?
MarkAnswered(qs, questionId) ==
  IF questionId \in DOMAIN qs
  THEN [qs EXCEPT ![questionId].is_answered = TRUE] ELSE qs

\* Unaccept all other answers for this question
AcceptUnaccept(p) ==
  LET r == reqs[p] IN
  /\ r.op = "accept" /\ r.pc = "unaccept"
  /\ answers' = UnacceptAll(answers, r.questionId)
  /\ Continue(p, [r EXCEPT !.pc = "acceptSelected"])
  /\ UNCHANGED <<now, revoked, tagTables, widgets, sessions, users, questions,
                 votes, nextAnswerId, calls>>

\* Accept the selected answer
AcceptSelect(p) ==
  LET r == reqs[p] IN
  /\ r.op = "accept" /\ r.pc = "acceptSelected"
  /\ answers' = AcceptSelected(answers, r.targetId)
  /\ Continue(p, [r EXCEPT !.pc = "markAnswered"])
  /\ UNCHANGED <<now, revoked, tagTables, widgets, sessions, users, questions,
                 votes, nextAnswerId, calls>>

\* Mark question as answered, then answer the request
AcceptMark(p) ==
  LET r == reqs[p] IN
  /\ r.op = "accept" /\ r.pc = "markAnswered"
  /\ questions' = MarkAnswered(questions, r.questionId)
  /\ Respond(p, "accept", "200")
  /\ UNCHANGED <<now, revoked, tagTables, widgets, sessions, users, answers,
                 votes, nextAnswerId, calls>>

AnswerStep(p) ==
  \/ CreateAnswerInsert(p)
  \/ CreateAnswerRead(p)
  \/ DeleteAnswerDelete(p)
  \/ AcceptUnaccept(p)
  \/ AcceptSelect(p)
  \/ AcceptMark(p)

AnswerStart(p) ==
  \/ \E u \in Users, q \in Questions : CreateAnswerQuestionExists(p, u, q)
  \/ \E u \in Users, a \in AnswerIds : DeleteAnswerOwnership(p, u, a)
  \/ \E u \in Users, a \in AnswerIds : AcceptAnswer(p, u, a)

(* ----------------------- castVote, one at a time ---------------------- *)
\* the users whose votes come one at a time
SerialVoters == {1, 2, 3}

SerialVoteStart(p) ==
  \E u \in SerialVoters, tt \in TargetTypes, v \in VoteValues :
    \E t \in (IF tt = "question" THEN Questions ELSE AnswerIds) :
      VoteTargetExists(p, u, tt, t, v)

SerialVoteNext ==
  \/ Quiescent /\ SerialVoteStart(SerialSlot)
  \/ \E p \in Procs : VoteStep(p)

SpecVoteSerial == Init /\ [][SerialVoteNext]_vars

(* ------------------- castVote, requests interleaved ------------------- *)
ConcVoteNext ==
  \/ \E p \in Procs : VoteStart(p)
  \/ \E p \in Procs : VoteStep(p)

SpecVoteConc == Init /\ [][ConcVoteNext]_vars

(* ------- createAnswer, acceptAnswer, deleteAnswer, one at a time ------ *)
SerialAnswerNext ==
  \/ Quiescent /\ AnswerStart(SerialSlot)
  \/ \E p \in Procs : AnswerStep(p)

SpecAnswerSerial == Init /\ [][SerialAnswerNext]_vars

(* ----- createAnswer, acceptAnswer, deleteAnswer, requests interleaved -- *)
ConcAnswerNext ==
  \/ \E p \in Procs : AnswerStart(p)
  \/ \E p \in Procs : AnswerStep(p)

SpecAnswerConc == Init /\ [][ConcAnswerNext]_vars

(* ---- castVote, requests interleaved, no two of them by one user ------ *)
InFlight(userId) == \E p \in Procs : ~Free(p) /\ reqs[p].userId = userId

DistinctVoteNext ==
  \/ \E p \in Procs, u \in Users, tt \in TargetTypes, v \in VoteValues :
       \E t \in (IF tt = "question" THEN Questions ELSE AnswerIds) :
         ~InFlight(u) /\ VoteTargetExists(p, u, tt, t, v)
  \/ \E p \in Procs : VoteStep(p)

SpecVoteDistinct == Init /\ [][DistinctVoteNext]_vars

(* -- every user who has not voted on answer 1 upvotes it once, at once -- *)
HasVoted(userId) ==
  SelectVotes(votes, userId, 1, "answer") # {}

UpvoteNext ==
  \/ \E p \in Procs, u \in Users :
       /\ u # answers[1].author_id
       /\ ~InFlight(u) /\ ~HasVoted(u)
       /\ VoteTargetExists(p, u, "answer", 1, 1)
  \/ \E p \in Procs : VoteStep(p)

SpecUpvotes == Init /\ [][UpvoteNext]_vars

(* ------------------ statements the store fails to run ----------------- *)
\* executeQuery catches the error of pool.execute and returns
\* { success: false }: the statement has no effect and the handler goes on
\* with what it does for that return value.  failedAt keeps the statement of
\* the request that failed; at most one statement of a request fails.
\* The first statement of POST /votes fails: targetExists stays false
VoteTargetExistsFails(p) ==
  /\ Free(p)
  /\ calls < MaxCalls
  /\ calls' = calls + 1
  /\ Respond(p, "vote", "404")
  /\ UNCHANGED <<now, revoked, tagTables, widgets, sessions, users, questions,
                 answers, votes, nextAnswerId>>

\* A later statement of POST /votes fails: the self-vote check and the
\* existing-vote check read success first and fall through, the results of
\* the writes are not read, and the reputation update is skipped when the
\* author lookup fails
VoteStatementFails(p) ==
  LET r == reqs[p]
      f == [r EXCEPT !.failedAt = r.pc]
  IN
  /\ r.op = "vote" /\ r.failedAt = "none"
  /\ CASE r.pc = "targetAuthor" -> Continue(p, [f EXCEPT !.pc = "existingVote"])
       [] r.pc = "existingVote" ->
            Continue(p, [f EXCEPT !.pc = "ledger", !.branch = "created"])
       [] r.pc = "ledger" -> Continue(p, [f EXCEPT !.pc = "count"])
       [] r.pc = "count" ->
            IF r.targetType = "question" THEN Respond(p, "vote", r.branch)
            ELSE Continue(p, [f EXCEPT !.pc = "author"])
       [] r.pc = "author" -> Respond(p, "vote", r.branch)
       [] r.pc = "reputation" -> Respond(p, "vote", r.branch)
  /\ UNCHANGED <<now, revoked, tagTables, widgets, sessions, users, questions,
                 answers, votes, nextAnswerId, calls>>

\* The lookup of POST /answers/:id/accept fails: !answerResult.success
AcceptAnswerFails(p) ==
  /\ Free(p)
  /\ Respond(p, "accept", "404")
  /\ UNCHANGED <<now, revoked, tagTables, widgets, sessions, users, questions,
                 answers, votes, nextAnswerId, calls>>

\* One of the three UPDATEs of POST /answers/:id/accept fails: its result
\* is not read
AcceptStatementFails(p) ==
  LET r == reqs[p]
      f == [r EXCEPT !.failedAt = r.pc]
  IN
  /\ r.op = "accept" /\ r.failedAt = "none"
  /\ CASE r.pc = "unaccept" -> Continue(p, [f EXCEPT !.pc = "acceptSelected"])
       [] r.pc = "acceptSelected" -> Continue(p, [f EXCEPT !.pc = "markAnswered"])
       [] r.pc = "markAnswered" -> Respond(p, "accept", "200")
  /\ UNCHANGED <<now, revoked, tagTables, widgets, sessions, users, questions,
                 answers, votes, nextAnswerId, calls>>

AcceptStep(p) ==
  \/ AcceptUnaccept(p)
  \/ AcceptSelect(p)
  \/ AcceptMark(p)

(* ---- MaxRequests castVote on question 1 and answer 1, and any ------- *)
(* ---- acceptAnswer, one at a time, on a store that fails statements --- *)
StoreFaultNext ==
  \/ Quiescent /\ \E u \in Users, tt \in TargetTypes, v \in VoteValues :
                    /\ calls < MaxRequests
                    /\ VoteTargetExists(SerialSlot, u, tt, 1, v)
  \/ Quiescent /\ calls < MaxRequests /\ VoteTargetExistsFails(SerialSlot)
  \/ Quiescent /\ \E u \in Users, a \in AnswerIds : AcceptAnswer(SerialSlot, u, a)
  \/ Quiescent /\ AcceptAnswerFails(SerialSlot)
  \/ \E p \in Procs : VoteStep(p)
  \/ \E p \in Procs : AcceptStep(p)
  \/ \E p \in Procs : VoteStatementFails(p)
  \/ \E p \in Procs : AcceptStatementFails(p)

SpecStoreFault == Init /\ [][StoreFaultNext]_vars

(* --- castVote, one at a time, by one user on one target, repeatedly --- *)
\* the ledger is empty when the first call is made, and every later call is
\* made by the holder of the one vote, on the target of that vote
RevoteNext ==
  \/ \E u \in Users, tt \in TargetTypes, v \in VoteValues :
       \E t \in (IF tt = "question" THEN Questions ELSE AnswerIds) :
         /\ Quiescent
         /\ votes = {} \/ SelectVotes(votes, u, t, tt) # {}
         /\ VoteTargetExists(SerialSlot, u, tt, t, v)
  \/ \E p \in Procs : VoteStep(p)

SpecRevote == Init /\ [][RevoteNext]_vars

(* ---- castVote on answer 1 by users 1 and 3, requests interleaved ----- *)
OneTargetNext ==
  \/ \E p \in Procs, u \in {1, 3}, v \in VoteValues :
       VoteTargetExists(p, u, "answer", 1, v)
  \/ \E p \in Procs : VoteStep(p)

SpecVoteOneTarget == Init /\ [][OneTargetNext]_vars

(* -- castVote, acceptAnswer and deleteAnswer, one at a time; the votes -- *)
(* -- are those of SpecRevote, so that the ledger holds one row at most -- *)
GoneNext ==
  \/ \E u \in Users, tt \in TargetTypes, v \in VoteValues :
       \E t \in (IF tt = "question" THEN Questions ELSE AnswerIds) :
         /\ Quiescent
         /\ votes = {} \/ SelectVotes(votes, u, t, tt) # {}
         /\ VoteTargetExists(SerialSlot, u, tt, t, v)
  \/ Quiescent /\ \E u \in Users, a \in AnswerIds :
                    DeleteAnswerOwnership(SerialSlot, u, a)
  \/ Quiescent /\ \E u \in Users, a \in AnswerIds :
                    AcceptAnswer(SerialSlot, u, a)
  \/ \E p \in Procs : VoteStep(p)
  \/ \E p \in Procs : AcceptStep(p)
  \/ \E p \in Procs : DeleteAnswerDelete(p)

SpecGone == Init /\ [][GoneNext]_vars

\* data of the success response: { action, value }, and { action } alone
\* after a removal
ResponseData(r) ==
  IF r.branch = "removed" THEN [action |-> r.branch, value |-> "null"]
  ELSE [action |-> r.branch, value |-> r.value]

(* --------------------------- POST /register --------------------------- *)
\* Every request of this part counts in calls, up to MaxRequests.
\* Check if username already exists
Register(p, username, password, bio) ==
  /\ Free(p)
  /\ calls < MaxCalls
  /\ calls' = calls + 1
  /\ DOMAIN users # UserIds
  /\ IF SelectUsersByName(users, username) # {}
     THEN Respond(p, "register", "400")
     ELSE Continue(p, [Idle EXCEPT !.op = "register", !.pc = "emailExists",
                                   !.userId = NewUserId, !.username = username,
                                   !.password = Hash(password), !.bio = bio])
  /\ UNCHANGED <<now, revoked, tagTables, widgets, users, sessions, questions,
                 answers, votes, nextAnswerId>>

\* Check if email already exists: the email of the request is a new one
RegisterEmailExists(p) ==
  LET r == reqs[p] IN
  /\ r.op = "register" /\ r.pc = "emailExists"
  /\ Continue(p, [r EXCEPT !.pc = "createUser"])
  /\ UNCHANGED <<now, revoked, tagTables, widgets, users, sessions, questions,
                 answers, votes, nextAnswerId, calls>>

\* Create user, with reputation 0
RegisterCreateUser(p) ==
  LET r == reqs[p] IN
  /\ r.op = "register" /\ r.pc = "createUser"
  /\ users' = InsertUser(users, r.userId, r.username, r.password, r.bio)
  /\ IF r.userId \in DOMAIN users'
     THEN Continue(p, [r EXCEPT !.pc = "createSession",
                                !.token = Sign(r.userId, now),
                                !.expiresAt = now + SessionLife])
     ELSE Respond(p, "register", "500")
  /\ UNCHANGED <<now, revoked, tagTables, widgets, sessions, questions,
                 answers, votes, nextAnswerId, calls>>

\* Create session
RegisterCreateSession(p) ==
  LET r == reqs[p] IN
  /\ r.op = "register" /\ r.pc = "createSession"
  /\ sessions' = InsertSession(sessions, NewSessionId, r.userId, r.token,
                              r.expiresAt)
  /\ IF sessions' # sessions
     THEN Continue(p, [r EXCEPT !.pc = "read"])
     ELSE Respond(p, "register", "500")
  /\ UNCHANGED <<now, revoked, tagTables, widgets, users, questions, answers,
                 votes, nextAnswerId, calls>>

\* Get user data (without password)
RegisterRead(p) ==
  LET r == reqs[p] IN
  /\ r.op = "register" /\ r.pc = "read"
  /\ Respond(p, "register", "201")
  /\ UNCHANGED <<now, revoked, tagTables, widgets, users, sessions, questions,
                 answers, votes, nextAnswerId, calls>>

(* ----------------------------- POST /login ---------------------------- *)
\* Find user by username, and verify password
Login(p, username, password) ==
  LET found == SelectUsersByName(users, username) IN
  /\ Free(p)
  /\ calls < MaxCalls
  /\ calls' = calls + 1
  /\ IF found = {}
     THEN Respond(p, "login", "401")
     ELSE \E u \in found :
            IF Compare(password, users[u].password)
            THEN Continue(p, [Idle EXCEPT !.op = "login",
                                          !.pc = "createSession", !.userId = u,
                                          !.token = Sign(u, now),
                                          !.expiresAt = now + SessionLife])
            ELSE Respond(p, "login", "401")
  /\ UNCHANGED <<now, revoked, tagTables, widgets, users, sessions, questions,
                 answers, votes, nextAnswerId>>

\* Create session
LoginCreateSession(p) ==
  LET r == reqs[p] IN
  /\ r.op = "login" /\ r.pc = "createSession"
  /\ sessions' = InsertSession(sessions, NewSessionId, r.userId, r.token,
                              r.expiresAt)
  /\ Respond(p, "login", IF sessions' # sessions THEN "200" ELSE "500")
  /\ UNCHANGED <<now, revoked, tagTables, widgets, users, questions, answers,
                 votes, nextAnswerId, calls>>

(* ---------------------------- POST /logout ---------------------------- *)
\* verifyToken has found the session of the token.  Delete session
Logout(p, token) ==
  /\ Free(p)
  /\ calls < MaxCalls
  /\ calls' = calls + 1
  /\ sessions' = DeleteSession(sessions, token)
  /\ reqs' = [reqs EXCEPT ![p] = Idle]
  /\ response' = [op |-> "logout", res |-> "200", token |-> token]
  /\ revoked' = revoked \cup {token}
  /\ UNCHANGED <<now, tagTables, widgets, users, questions, answers, votes,
                 nextAnswerId>>

(* ---------------------------- PUT /profile ---------------------------- *)
\* The request has passed verifyToken as userId; username and bio are
\* bound, to a value or to NULL, email and avatar to NULL.  Check if new
\* username already exists (if username is being updated); the UPDATE is
\* the first statement otherwise
UpdateProfile(p, userId, username, bio) ==
  /\ Free(p)
  /\ calls < MaxCalls
  /\ calls' = calls + 1
  /\ IF username # NULL /\ username # users[userId].username
     THEN /\ IF SelectUsersByName(users, username) \ {userId} # {}
             THEN Respond(p, "updateProfile", "400")
             ELSE Continue(p, [Idle EXCEPT !.op = "updateProfile",
                                           !.pc = "update", !.userId = userId,
                                           !.username = username, !.bio = bio])
          /\ UNCHANGED users
     ELSE /\ users' = UpdateUser(users, userId, username, bio)
          /\ Continue(p, [Idle EXCEPT !.op = "updateProfile", !.pc = "read",
                                      !.userId = userId,
                                      !.username = username, !.bio = bio])
  /\ UNCHANGED <<now, revoked, tagTables, widgets, sessions, questions,
                 answers, votes, nextAnswerId>>

\* Update user
UpdateProfileUpdate(p) ==
  LET r == reqs[p]
      failed == SelectUsersByName(users, r.username) \ {r.userId} # {}
  IN
  /\ r.op = "updateProfile" /\ r.pc = "update"
  /\ users' = UpdateUser(users, r.userId, r.username, r.bio)
  /\ IF failed THEN Respond(p, "updateProfile", "500")
               ELSE Continue(p, [r EXCEPT !.pc = "read"])
  /\ UNCHANGED <<now, revoked, tagTables, widgets, sessions, questions,
                 answers, votes, nextAnswerId, calls>>

\* Get updated user data
UpdateProfileRead(p) ==
  LET r == reqs[p] IN
  /\ r.op = "updateProfile" /\ r.pc = "read"
  /\ Respond(p, "updateProfile", "200")
  /\ UNCHANGED <<now, revoked, tagTables, widgets, users, sessions, questions,
                 answers, votes, nextAnswerId, calls>>

(* --------------------------- PUT /password ---------------------------- *)
\* Get current password hash, and verify current password
ChangePassword(p, userId, currentPassword, newPassword) ==
  /\ Free(p)
  /\ calls < MaxCalls
  /\ calls' = calls + 1
  /\ IF userId \notin DOMAIN users
     THEN Respond(p, "changePassword", "404")
     ELSE IF ~Compare(currentPassword, users[userId].password)
     THEN Respond(p, "changePassword", "400")
     ELSE Continue(p, [Idle EXCEPT !.op = "changePassword", !.pc = "update",
                                   !.userId = userId,
                                   !.password = Hash(newPassword)])
  /\ UNCHANGED <<now, revoked, tagTables, widgets, users, sessions, questions,
                 answers, votes, nextAnswerId>>

\* Update password
ChangePasswordUpdate(p) ==
  LET r == reqs[p] IN
  /\ r.op = "changePassword" /\ r.pc = "update"
  /\ users' = UpdatePassword(users, r.userId, r.password)
  /\ Respond(p, "changePassword", "200")
  /\ UNCHANGED <<now, revoked, tagTables, widgets, sessions, questions,
                 answers, votes, nextAnswerId, calls>>

AccountStep(p) ==
  \/ RegisterEmailExists(p)
  \/ RegisterCreateUser(p)
  \/ RegisterCreateSession(p)
  \/ RegisterRead(p)
  \/ LoginCreateSession(p)
  \/ UpdateProfileUpdate(p)
  \/ UpdateProfileRead(p)
  \/ ChangePasswordUpdate(p)

(* --------------------------- POST /questions -------------------------- *)
\* The request carries no tags.  Create question
CreateQuestion(p, userId) ==
  /\ Free(p)
  /\ calls < MaxCalls
  /\ calls' = calls + 1
  /\ DOMAIN questions # QuestionIds
  /\ questions' = InsertQuestion(questions, NewQuestionId, userId)
  /\ Continue(p, [Idle EXCEPT !.op = "createQuestion", !.pc = "read",
                              !.userId = userId, !.targetId = NewQuestionId])
  /\ UNCHANGED <<now, revoked, tagTables, widgets, users, sessions, answers,
                 votes, nextAnswerId>>

\* Get created question with full data
CreateQuestionRead(p) ==
  LET r == reqs[p] IN
  /\ r.op = "createQuestion" /\ r.pc = "read"
  /\ Respond(p, "createQuestion", "201")
  /\ UNCHANGED <<now, revoked, tagTables, widgets, users, sessions, questions,
                 answers, votes, nextAnswerId, calls>>

(* -------------------------- GET /questions/:id ------------------------ *)
\* Increment view count
ViewQuestion(p, id) ==
  /\ Free(p)
  /\ calls < MaxCalls
  /\ calls' = calls + 1
  /\ questions' = IncrementViews(questions, id)
  /\ Continue(p, [Idle EXCEPT !.op = "viewQuestion", !.pc = "read",
                              !.targetId = id])
  /\ UNCHANGED <<now, revoked, tagTables, widgets, users, sessions, answers,
                 votes, nextAnswerId>>

\* Get question with author info
ViewQuestionRead(p) ==
  LET r == reqs[p] IN
  /\ r.op = "viewQuestion" /\ r.pc = "read"
  /\ IF r.targetId \in DOMAIN questions
     THEN Continue(p, [r EXCEPT !.pc = "tags"])
     ELSE Respond(p, "viewQuestion", "404")
  /\ UNCHANGED <<now, revoked, tagTables, widgets, users, sessions, questions,
                 answers, votes, nextAnswerId, calls>>

\* Get tags
ViewQuestionTags(p) ==
  LET r == reqs[p] IN
  /\ r.op = "viewQuestion" /\ r.pc = "tags"
  /\ Continue(p, [r EXCEPT !.pc = "answers"])
  /\ UNCHANGED <<now, revoked, tagTables, widgets, users, sessions, questions,
                 answers, votes, nextAnswerId, calls>>

\* Get answers, and answer the request
ViewQuestionAnswers(p) ==
  LET r == reqs[p] IN
  /\ r.op = "viewQuestion" /\ r.pc = "answers"
  /\ Respond(p, "viewQuestion", "200")
  /\ UNCHANGED <<now, revoked, tagTables, widgets, users, sessions, questions,
                 answers, votes, nextAnswerId, calls>>

QuestionStep(p) ==
  \/ CreateQuestionRead(p)
  \/ ViewQuestionRead(p)
  \/ ViewQuestionTags(p)
  \/ ViewQuestionAnswers(p)

(* ---- the requests of user 2, the author of answer 1, and the votes ---- *)
(* ---- of users 1 and 3 on question 1 and answer 1, one at a time ------ *)
\* a name that is taken and the name that is free at first
SomeNames == {1, NUsers + 1}

\* a request starts while nothing is in flight and requests are left
Arrives == Quiescent /\ calls < MaxRequests

ForumNext ==
  \/ Arrives /\ \E n \in SomeNames : Register(SerialSlot, n, 2, 2)
  \/ Arrives /\ \E w \in Passwords : Login(SerialSlot, 2, w)
  \/ Arrives /\ \E s \in sessions : Logout(SerialSlot, s.token)
  \/ Arrives /\ \E n \in SomeNames \cup {NULL}, b \in {2, NULL} :
                  UpdateProfile(SerialSlot, 2, n, b)
  \/ Arrives /\ \E w \in Passwords : ChangePassword(SerialSlot, 2, w, 2)
  \/ Arrives /\ CreateQuestion(SerialSlot, 2)
  \/ Arrives /\ \E q \in QuestionIds : ViewQuestion(SerialSlot, q)
  \/ Quiescent /\ CreateAnswerQuestionExists(SerialSlot, 2, 1)
  \/ Quiescent /\ \E u \in {1, 2} : AcceptAnswer(SerialSlot, u, 1)
  \/ Quiescent /\ \E u \in {1, 3}, tt \in TargetTypes, v \in VoteValues :
                    /\ calls < MaxRequests
                    /\ VoteTargetExists(SerialSlot, u, tt, 1, v)
  \/ \E p \in Procs : AccountStep(p)
  \/ \E p \in Procs : QuestionStep(p)
  \/ \E p \in Procs : CreateAnswerInsert(p) \/ CreateAnswerRead(p)
  \/ \E p \in Procs : AcceptStep(p)
  \/ \E p \in Procs : VoteStep(p)

SpecForum == Init /\ [][ForumNext]_vars

(* ---- MaxRequests requests interleaved: GET /questions/:id of any ----- *)
(* ---- question, createQuestion, and votes of user 3 on question 1 ----- *)
(* ---- and on answer 1 ------------------------------------------------- *)
ViewsNext ==
  \/ \E p \in Procs, q \in QuestionIds :
       calls < MaxRequests /\ ViewQuestion(p, q)
  \/ \E p \in Procs, u \in Users :
       calls < MaxRequests /\ CreateQuestion(p, u)
  \/ \E p \in Procs, tt \in TargetTypes, v \in VoteValues :
       /\ calls < MaxRequests
       /\ VoteTargetExists(p, 3, tt, 1, v)
  \/ \E p \in Procs : QuestionStep(p)
  \/ \E p \in Procs : VoteStep(p)

SpecViews == Init /\ [][ViewsNext]_vars

(* ----------------------------- verifyToken ---------------------------- *)
\* The request carries an Authorization header with a bearer token, or none.
\* jwt.verify, then: Check if user exists and session is valid
VerifyToken(p, authHeader, token) ==
  /\ reqs[p].pc = "idle"
  /\ IF ~authHeader \/ Verify(token, now) # "ok"
        \/ token.userId \notin DOMAIN users
     THEN Respond(p, "verifyToken", "401")
     ELSE Continue(p, [Idle EXCEPT !.op = "verifyToken", !.pc = "session",
                                   !.userId = token.userId, !.token = token])
  /\ UNCHANGED <<now, revoked, tagTables, widgets, sessions, users, questions,
                 answers, votes, nextAnswerId, calls>>

\* Check if session exists and is not expired; next() hands req.user and
\* req.token to the handler of the route
VerifyTokenSession(p) ==
  LET r == reqs[p] IN
  /\ r.op = "verifyToken" /\ r.pc = "session"
  /\ IF SelectSessions(sessions, r.userId, r.token, now) = {}
     THEN Respond(p, "verifyToken", "401")
     ELSE Continue(p, [r EXCEPT !.pc = "next"])
  /\ UNCHANGED <<now, revoked, tagTables, widgets, sessions, users, questions,
                 answers, votes, nextAnswerId, calls>>

\* the request in slot p has passed verifyToken
Passed(p) == reqs[p].pc = "next"

\* a tick of the clock that jwt and NOW() read
Tick ==
  /\ now < MaxTime
  /\ now' = now + 1
  /\ UNCHANGED <<revoked, tagTables, widgets, sessions, users, questions,
                 answers, votes, reqs, response, nextAnswerId, calls>>

(* ---- one at a time: logins of user 1, and requests behind ------------ *)
(* ---- verifyToken that carry a token of a user, of a user who is not --- *)
(* ---- registered, a token of another secret, or no token -------------- *)
\* the bearer tokens that requests carry
BearerTokens ==
  {Sign(u, t) : u \in {1, 2, NUsers + 1}, t \in 0..MaxTime}
    \cup {[Sign(1, 0) EXCEPT !.signed = FALSE]}

AuthNext ==
  \/ reqs[SerialSlot].pc = "idle" /\ Login(SerialSlot, 1, 1)
  \/ LoginCreateSession(SerialSlot)
  \/ \E h \in BOOLEAN, t \in BearerTokens : VerifyToken(SerialSlot, h, t)
  \/ VerifyTokenSession(SerialSlot)
  \/ Passed(SerialSlot) /\ Logout(SerialSlot, reqs[SerialSlot].token)
  \/ Passed(SerialSlot)
       /\ VoteTargetExists(SerialSlot, reqs[SerialSlot].userId, "answer", 1, 1)
  \/ Passed(SerialSlot) /\ AcceptAnswer(SerialSlot, reqs[SerialSlot].userId, 1)
  \/ Passed(SerialSlot)
       /\ UpdateProfile(SerialSlot, reqs[SerialSlot].userId, NULL, 2)
  \/ VoteStep(SerialSlot)
  \/ AcceptStep(SerialSlot)
  \/ UpdateProfileRead(SerialSlot)
  \/ Tick

SpecAuth == Init /\ [][AuthNext]_vars

(* ------- POST /votes as one call, from its request to its response ---- *)
\* uuidv4() of a vote in the ledger vs: the least identifier it does not hold
NewVoteIdIn(vs) ==
  CHOOSE i \in 1..(Cardinality(vs) + 1) :
    i \notin {v.id : v \in vs}
      /\ \A j \in 1..(i - 1) : j \in {v.id : v \in vs}

\* The handler run on the store st = [users, questions, answers, votes] with
\* no other request in between: the store it leaves, and the action or the
\* status it answers with
CastVote(st, userId, targetType, targetId, value) ==
  LET found == SelectVotes(st.votes, userId, targetId, targetType)
      existingVote == CHOOSE v \in found : TRUE
      r == [value |-> value,
            existingVote |-> IF found = {} THEN NoVote ELSE existingVote,
            branch |-> IF found = {} THEN "created"
                       ELSE IF existingVote.value = value THEN "removed"
                       ELSE "updated"]
      ledger ==
        CASE r.branch = "removed" -> DeleteVote(st.votes, r.existingVote.id)
          [] r.branch = "updated" ->
               UpdateVoteValue(st.votes, r.existingVote.id, value)
          [] r.branch = "created" ->
               InsertVote(st.votes,
                          [id |-> NewVoteIdIn(st.votes), user_id |-> userId,
                           target_id |-> targetId,
                           target_type |-> targetType, value |-> value])
  IN
  IF ~TargetExists(st.questions, st.answers, targetType, targetId)
  THEN [st EXCEPT !.action = "404"]
  ELSE IF TargetAuthor(st.questions, st.answers, targetType, targetId) = userId
  THEN [st EXCEPT !.action = "400"]
  ELSE IF targetType = "question"
  THEN [st EXCEPT !.votes = ledger,
                  !.questions = UpdateVotesCount(@, targetId, BranchDelta(r)),
                  !.action = r.branch]
  ELSE [st EXCEPT !.votes = ledger,
                  !.answers = UpdateVotesCount(@, targetId, BranchDelta(r)),
                  !.users = UpdateReputation(@, st.answers[targetId].author_id,
                                             BranchDelta(r)),
                  !.action = r.branch]

\* the store as it is, before any call
Store ==
  [users |-> users, questions |-> questions, answers |-> answers,
   votes |-> votes, action |-> "none"]

(* ---- castVote, one at a time, by users 1 and 3 on question 1 and ----- *)
(* ---- answer 1 ------------------------------------------------------- *)
CommuteNext ==
  \/ \E u \in {1, 3}, tt \in TargetTypes, v \in VoteValues :
       Quiescent /\ VoteTargetExists(SerialSlot, u, tt, 1, v)
  \/ \E p \in Procs : VoteStep(p)

SpecCommute == Init /\ [][CommuteNext]_vars

(* ------------------------ GET /users/:id/votes ------------------------ *)
\* SELECT v.id, v.target_id, v.target_type, v.value ... FROM votes v
\* WHERE v.user_id = ?
SelectVotesOfUser(vs, id) == {v \in vs : v.user_id = id}

\* res.json({ success: true, data }) for the votes of user id
RespondVotes(p, id, res, data) ==
  /\ reqs' = [reqs EXCEPT ![p] = Idle]
  /\ response' = [op |-> "userVotes", res |-> res, id |-> id, data |-> data]

\* the route without its comparison of :id with the caller
GetUserVotesOfAnyone(p, currentUserId, id) ==
  /\ Free(p)
  /\ RespondVotes(p, id, "200", SelectVotesOfUser(votes, id))
  /\ UNCHANGED <<now, revoked, tagTables, widgets, sessions, users, questions,
                 answers, votes, nextAnswerId, calls>>

\* The request has passed verifyToken as currentUserId.  Users can only see
\* their own votes
GetUserVotes(p, currentUserId, id) ==
  /\ Free(p)
  /\ IF id # currentUserId
     THEN RespondVotes(p, id, "403", {})
     ELSE RespondVotes(p, id, "200", SelectVotesOfUser(votes, id))
  /\ UNCHANGED <<now, revoked, tagTables, widgets, sessions, users, questions,
                 answers, votes, nextAnswerId, calls>>

(* ---- one at a time: logins of users 1 and 3, their votes on answer --- *)
(* ---- 1, and their requests for the votes of a user ------------------ *)
UserVotesNext ==
  \/ \E u \in {1, 3} : reqs[SerialSlot].pc = "idle" /\ Login(SerialSlot, u, 1)
  \/ LoginCreateSession(SerialSlot)
  \/ \E u \in {1, 3} : VerifyToken(SerialSlot, TRUE, Sign(u, now))
  \/ VerifyTokenSession(SerialSlot)
  \/ \E v \in VoteValues :
       /\ Passed(SerialSlot)
       /\ VoteTargetExists(SerialSlot, reqs[SerialSlot].userId, "answer", 1, v)
  \/ \E id \in Users :
       /\ Passed(SerialSlot)
       /\ GetUserVotes(SerialSlot, reqs[SerialSlot].userId, id)
  \/ VoteStep(SerialSlot)

SpecUserVotes == Init /\ [][UserVotesNext]_vars

(* ------------------------ DELETE /questions/:id ----------------------- *)
\* Check ownership
DeleteQuestionOwnership(p, userId, id) ==
  /\ Free(p)
  /\ IF id \notin DOMAIN questions
     THEN Respond(p, "deleteQuestion", "404")
     ELSE IF questions[id].author_id # userId
     THEN Respond(p, "deleteQuestion", "403")
     ELSE Continue(p, [Idle EXCEPT !.op = "deleteQuestion", !.pc = "delete",
                                   !.userId = userId, !.targetId = id])
  /\ UNCHANGED <<now, revoked, tagTables, widgets, sessions, users, questions,
                 answers, votes, nextAnswerId, calls>>

\* DELETE FROM questions WHERE id = ?
DeleteQuestionRow(qs, id) == [q \in DOMAIN qs \ {id} |-> qs[q]]

\* FOREIGN KEY (question_id) REFERENCES questions(id) ON DELETE CASCADE, of
\* the answers table and of the question_tags table; the votes table has no
\* foreign key on target_id
CascadeAnswers(as, questionId) ==
  [a \in {b \in DOMAIN as : as[b].question_id # questionId} |-> as[a]]

CascadeQuestionTags(qts, questionId) ==
  {l \in qts : l.question_id # questionId}

\* Delete question (cascade will handle related data)
DeleteQuestionDelete(p) ==
  LET r == reqs[p] IN
  /\ r.op = "deleteQuestion" /\ r.pc = "delete"
  /\ questions' = DeleteQuestionRow(questions, r.targetId)
  /\ answers' = CascadeAnswers(answers, r.targetId)
  /\ question_tags' = CascadeQuestionTags(question_tags, r.targetId)
  /\ Respond(p, "deleteQuestion", "200")
  /\ UNCHANGED <<now, revoked, tags, widgets, sessions, users, votes,
                 nextAnswerId, calls>>

(* ---- one at a time: MaxRequests castVote on question 1 and answer 1, -- *)
(* ---- and any deleteAnswer and deleteQuestion ------------------------- *)
DeleteNext ==
  \/ \E u \in Users, tt \in TargetTypes, v \in VoteValues :
       Arrives /\ VoteTargetExists(SerialSlot, u, tt, 1, v)
  \/ Quiescent /\ \E u \in Users, a \in AnswerIds :
                    DeleteAnswerOwnership(SerialSlot, u, a)
  \/ Quiescent /\ \E u \in Users, q \in Questions :
                    DeleteQuestionOwnership(SerialSlot, u, q)
  \/ \E p \in Procs : VoteStep(p)
  \/ \E p \in Procs : DeleteAnswerDelete(p)
  \/ \E p \in Procs : DeleteQuestionDelete(p)

SpecDelete == Init /\ [][DeleteNext]_vars

(* ------------------------------ tags ---------------------------------- *)
\* identifiers and names of tags: the default tags, and one more
TagIds == 1..(NTags + 1)
TagNames == 1..(NTags + 1)

\* req.body.tags: isArray({ min: 1, max: 5 })
TagLists == UNION {[1..k -> TagNames] : k \in 1..MaxTagList}

\* SELECT id FROM tags WHERE name = ?
SelectTagsByName(ts, name) == {t \in DOMAIN ts : ts[t].name = name}

\* uuidv4() of a new tag: the least identifier no tag has
NewTagId == CHOOSE i \in TagIds : i \notin DOMAIN tags
              /\ \A j \in 1..(i - 1) : j \in DOMAIN tags

\* INSERT INTO tags (id, name, description): name is UNIQUE, and the count
\* takes its default
InsertTag(ts, id, name) ==
  IF SelectTagsByName(ts, name) # {}
  THEN ts
  ELSE [t \in DOMAIN ts \cup {id} |->
          IF t = id THEN [name |-> name, count |-> 0] ELSE ts[t]]

\* INSERT INTO question_tags (question_id, tag_id): PRIMARY KEY
\* (question_id, tag_id), and both columns are foreign keys
InsertQuestionTag(qts, qs, ts, questionId, tagId) ==
  IF questionId \in DOMAIN qs /\ tagId \in DOMAIN ts
  THEN qts \cup {[question_id |-> questionId, tag_id |-> tagId]}
  ELSE qts

\* SELECT COUNT(*) FROM question_tags WHERE tag_id = ?
CountQuestionTags(qts, tagId) == Cardinality({l \in qts : l.tag_id = tagId})

\* UPDATE tags SET count = (SELECT COUNT(*) FROM question_tags
\* WHERE tag_id = ?) WHERE id = ?
UpdateTagCount(ts, qts, tagId) ==
  IF tagId \in DOMAIN ts
  THEN [ts EXCEPT ![tagId].count = CountQuestionTags(qts, tagId)]
  ELSE ts

\* DELETE FROM question_tags WHERE question_id = ?
DeleteQuestionTags(qts, questionId) ==
  {l \in qts : l.question_id # questionId}

\* DELETE FROM tags WHERE id = ?
DeleteTagRow(ts, id) == [t \in DOMAIN ts \ {id} |-> ts[t]]

\* FOREIGN KEY (tag_id) REFERENCES tags(id) ON DELETE CASCADE
CascadeTagLinks(qts, tagId) == {l \in qts : l.tag_id # tagId}

(* ------------------- POST /questions, with its tags ------------------- *)
\* Create question; the tags of the request are added one after another
CreateQuestionWithTags(p, userId, tagNames) ==
  /\ Free(p)
  /\ calls < MaxCalls
  /\ calls' = calls + 1
  /\ DOMAIN questions # QuestionIds
  /\ questions' = InsertQuestion(questions, NewQuestionId, userId)
  /\ Continue(p, [Idle EXCEPT !.op = "createQuestion", !.pc = "tagSelect",
                              !.userId = userId, !.targetId = NewQuestionId,
                              !.tagNames = tagNames])
  /\ UNCHANGED <<now, revoked, tagTables, widgets, users, sessions, answers,
                 votes, nextAnswerId>>

\* the loop goes on to the next tag name; after the last one createQuestion
\* reads the question back and updateQuestion answers
NextTag(p, r) ==
  IF Tail(r.tagNames) # <<>>
  THEN Continue(p, [r EXCEPT !.pc = "tagSelect", !.tagNames = Tail(@)])
  ELSE IF r.op = "createQuestion"
  THEN Continue(p, [r EXCEPT !.pc = "read", !.tagNames = <<>>])
  ELSE Respond(p, "updateQuestion", "200")

\* Get or create tag: SELECT id FROM tags WHERE name = ?
TagSelect(p) ==
  LET r == reqs[p]
      found == SelectTagsByName(tags, Head(r.tagNames))
  IN
  /\ r.op \in {"createQuestion", "updateQuestion"} /\ r.pc = "tagSelect"
  /\ IF found # {}
     THEN Continue(p, [r EXCEPT !.pc = "link",
                                !.tagId = CHOOSE t \in found : TRUE])
     ELSE Continue(p, [r EXCEPT !.pc = "tagInsert"])
  /\ UNCHANGED <<now, revoked, tagTables, widgets, users, sessions, questions,
                 answers, votes, nextAnswerId, calls>>

\* Create new tag; the result is not read, and tagId is the new uuid, which
\* is the identifier of no row (0) when the INSERT has failed
TagInsert(p) ==
  LET r == reqs[p] IN
  /\ r.op \in {"createQuestion", "updateQuestion"} /\ r.pc = "tagInsert"
  /\ tags' = InsertTag(tags, NewTagId, Head(r.tagNames))
  /\ Continue(p, [r EXCEPT !.pc = "link",
                           !.tagId = IF tags' # tags THEN NewTagId ELSE 0])
  /\ UNCHANGED <<now, revoked, question_tags, widgets, users, sessions,
                 questions, answers, votes, nextAnswerId, calls>>

\* Link tag to question; the result is not read
TagLink(p) ==
  LET r == reqs[p] IN
  /\ r.op \in {"createQuestion", "updateQuestion"} /\ r.pc = "link"
  /\ question_tags' = InsertQuestionTag(question_tags, questions, tags,
                                        r.targetId, r.tagId)
  /\ IF r.op = "createQuestion"
     THEN Continue(p, [r EXCEPT !.pc = "count"])
     ELSE NextTag(p, r)
  /\ UNCHANGED <<now, revoked, tags, widgets, users, sessions, questions,
                 answers, votes, nextAnswerId, calls>>

\* Update tag count
TagCount(p) ==
  LET r == reqs[p] IN
  /\ r.op = "createQuestion" /\ r.pc = "count"
  /\ tags' = UpdateTagCount(tags, question_tags, r.tagId)
  /\ NextTag(p, r)
  /\ UNCHANGED <<now, revoked, question_tags, widgets, users, sessions,
                 questions, answers, votes, nextAnswerId, calls>>

(* -------------------------- PUT /questions/:id ------------------------ *)
\* Check ownership
UpdateQuestionOwnership(p, userId, id, tagNames) ==
  /\ Free(p)
  /\ calls < MaxCalls
  /\ calls' = calls + 1
  /\ IF id \notin DOMAIN questions
     THEN Respond(p, "updateQuestion", "404")
     ELSE IF questions[id].author_id # userId
     THEN Respond(p, "updateQuestion", "403")
     ELSE Continue(p, [Idle EXCEPT !.op = "updateQuestion", !.pc = "update",
                                   !.userId = userId, !.targetId = id,
                                   !.tagNames = tagNames])
  /\ UNCHANGED <<now, revoked, tagTables, widgets, users, sessions, questions,
                 answers, votes, nextAnswerId>>

\* Update question: UPDATE questions SET title = ?, content = ?,
\* updated_at = NOW() WHERE id = ?
UpdateQuestionUpdate(p) ==
  LET r == reqs[p] IN
  /\ r.op = "updateQuestion" /\ r.pc = "update"
  /\ Continue(p, [r EXCEPT !.pc = "removeTags"])
  /\ UNCHANGED <<now, revoked, tagTables, widgets, users, sessions, questions,
                 answers, votes, nextAnswerId, calls>>

\* Remove existing tags
UpdateQuestionRemoveTags(p) ==
  LET r == reqs[p] IN
  /\ r.op = "updateQuestion" /\ r.pc = "removeTags"
  /\ question_tags' = DeleteQuestionTags(question_tags, r.targetId)
  /\ Continue(p, [r EXCEPT !.pc = "tagSelect"])
  /\ UNCHANGED <<now, revoked, tags, widgets, users, sessions, questions,
                 answers, votes, nextAnswerId, calls>>

TagStep(p) ==
  \/ TagSelect(p)
  \/ TagInsert(p)
  \/ TagLink(p)
  \/ TagCount(p)
  \/ CreateQuestionRead(p)
  \/ UpdateQuestionUpdate(p)
  \/ UpdateQuestionRemoveTags(p)

(* ------------------------------ POST /tags ---------------------------- *)
\* Check if tag already exists
CreateTag(p, name) ==
  /\ Free(p)
  /\ calls < MaxCalls
  /\ calls' = calls + 1
  /\ IF SelectTagsByName(tags, name) # {}
     THEN Respond(p, "createTag", "400")
     ELSE Continue(p, [Idle EXCEPT !.op = "createTag", !.pc = "insert",
                                   !.tagNames = <<name>>])
  /\ UNCHANGED <<now, revoked, tagTables, widgets, users, sessions, questions,
                 answers, votes, nextAnswerId>>

\* Create tag: INSERT INTO tags (id, name, description, count) VALUES
\* (?, ?, ?, 0)
CreateTagInsert(p) ==
  LET r == reqs[p] IN
  /\ r.op = "createTag" /\ r.pc = "insert"
  /\ tags' = InsertTag(tags, NewTagId, Head(r.tagNames))
  /\ IF tags' = tags
     THEN Respond(p, "createTag", "500")
     ELSE Continue(p, [r EXCEPT !.pc = "read", !.tagId = NewTagId])
  /\ UNCHANGED <<now, revoked, question_tags, widgets, users, sessions,
                 questions, answers, votes, nextAnswerId, calls>>

\* Get created tag
CreateTagRead(p) ==
  LET r == reqs[p] IN
  /\ r.op = "createTag" /\ r.pc = "read"
  /\ Respond(p, "createTag", "201")
  /\ UNCHANGED <<now, revoked, tagTables, widgets, users, sessions, questions,
                 answers, votes, nextAnswerId, calls>>

(* ---------------------------- DELETE /tags/:id ------------------------ *)
\* Check if tag is used by any questions
DeleteTag(p, id) ==
  /\ Free(p)
  /\ calls < MaxCalls
  /\ calls' = calls + 1
  /\ IF CountQuestionTags(question_tags, id) > 0
     THEN Respond(p, "deleteTag", "400")
     ELSE Continue(p, [Idle EXCEPT !.op = "deleteTag", !.pc = "delete",
                                   !.tagId = id])
  /\ UNCHANGED <<now, revoked, tagTables, widgets, users, sessions, questions,
                 answers, votes, nextAnswerId>>

\* the usage query fails: usageResult.success is false, the test
\* usageResult.success && usageResult.data[0].count > 0 is false, and the
\* handler goes on to the DELETE
DeleteTagUsageFails(p, id) ==
  /\ Free(p)
  /\ calls < MaxCalls
  /\ calls' = calls + 1
  /\ Continue(p, [Idle EXCEPT !.op = "deleteTag", !.pc = "delete",
                              !.tagId = id, !.failedAt = "usage"])
  /\ UNCHANGED <<now, revoked, tagTables, widgets, users, sessions, questions,
                 answers, votes, nextAnswerId>>

\* Delete tag, and the links the foreign key deletes with it
DeleteTagDelete(p) ==
  LET r == reqs[p] IN
  /\ r.op = "deleteTag" /\ r.pc = "delete"
  /\ tags' = DeleteTagRow(tags, r.tagId)
  /\ question_tags' = CascadeTagLinks(question_tags, r.tagId)
  /\ Respond(p, "deleteTag", "200")
  /\ UNCHANGED <<now, revoked, widgets, users, sessions, questions, answers,
                 votes, nextAnswerId, calls>>

(* ---- deleteTag beside a createQuestion or an updateQuestion that ----- *)
(* ---- links the tag, and a usage query that fails --------------------- *)
TagDeleteNext ==
  \/ \E p \in Procs, ns \in TagLists : CreateQuestionWithTags(p, 1, ns)
  \/ \E p \in Procs, ns \in TagLists : UpdateQuestionOwnership(p, 1, 1, ns)
  \/ \E p \in Procs, t \in TagIds : DeleteTag(p, t)
  \/ \E p \in Procs, t \in TagIds : DeleteTagUsageFails(p, t)
  \/ \E p \in Procs : TagStep(p)
  \/ \E p \in Procs : DeleteTagDelete(p)

SpecTagDelete == Init /\ [][TagDeleteNext]_vars

(* ---- one at a time: createQuestion and updateQuestion with tags, ----- *)
(* ---- deleteQuestion and createTag ------------------------------------ *)
TagsNext ==
  \/ Quiescent /\ \E u \in Users, ns \in TagLists :
                    CreateQuestionWithTags(SerialSlot, u, ns)
  \/ Quiescent /\ \E u \in Users, q \in Questions, ns \in TagLists :
                    UpdateQuestionOwnership(SerialSlot, u, q, ns)
  \/ Quiescent /\ \E u \in Users, q \in QuestionIds :
                    DeleteQuestionOwnership(SerialSlot, u, q)
  \/ Quiescent /\ \E n \in TagNames : CreateTag(SerialSlot, n)
  \/ \E p \in Procs : TagStep(p)
  \/ \E p \in Procs : DeleteQuestionDelete(p)
  \/ \E p \in Procs : CreateTagInsert(p)
  \/ \E p \in Procs : CreateTagRead(p)

SpecTags == Init /\ [][TagsNext]_vars

(* ------------------------- VotingButtons (client) --------------------- *)
\* the votes a user can have cast: 'up' | 'down' | null
VoteTypes == {"up", "down"}

\* the component is mounted with its props: useState(initialVotes),
\* useState(userVote); voteType is the argument of the last handleVote, none
\* at first
VotingButtons(initialVotes, userVote) ==
  /\ votingButtons' = [initialVotes |-> initialVotes, userVote |-> userVote,
                       votes |-> initialVotes, currentVote |-> userVote,
                       voteType |-> "null"]
  /\ UNCHANGED <<users, sessions, questions, answers, votes, reqs, response,
                 nextAnswerId, calls, now, revoked, tagTables, tagInput>>

\* a handler that does not take the previous vote back
handleVoteOverPrevious(voteType) ==
  LET currentVote == votingButtons.currentVote
      added == IF currentVote = voteType THEN votingButtons.votes
               ELSE IF voteType = "up" THEN votingButtons.votes + 1
               ELSE votingButtons.votes - 1
  IN
  /\ votingButtons' =
       [votingButtons EXCEPT
          !.votes = added,
          !.currentVote = IF currentVote = voteType THEN "null" ELSE voteType,
          !.voteType = voteType]
  /\ UNCHANGED <<users, sessions, questions, answers, votes, reqs, response,
                 nextAnswerId, calls, now, revoked, tagTables, tagInput>>

\* handleVote: Remove previous vote if it exists; If clicking the same vote
\* type, remove the vote, else Add new vote; setVotes, setCurrentVote
handleVote(voteType) ==
  LET currentVote == votingButtons.currentVote
      removed == IF currentVote = "up" THEN votingButtons.votes - 1
                 ELSE IF currentVote = "down" THEN votingButtons.votes + 1
                 ELSE votingButtons.votes
      added == IF currentVote = voteType THEN removed
               ELSE IF voteType = "up" THEN removed + 1
               ELSE removed - 1
  IN
  /\ votingButtons' =
       [votingButtons EXCEPT
          !.votes = added,
          !.currentVote = IF currentVote = voteType THEN "null" ELSE voteType,
          !.voteType = voteType]
  /\ UNCHANGED <<users, sessions, questions, answers, votes, reqs, response,
                 nextAnswerId, calls, now, revoked, tagTables, tagInput>>

(* ---- a widget mounted with any props, and any clicks on it ----------- *)
VotingButtonsNext ==
  \/ \E n \in (0 - MaxInitialVotes)..MaxInitialVotes,
        v \in VoteTypes \cup {"null"} : VotingButtons(n, v)
  \/ \E voteType \in VoteTypes : handleVote(voteType)

SpecVotingButtons == Init /\ [][VotingButtonsNext]_vars

(* --------------------------- TagInput (client) ------------------------ *)
\* a string is a sequence of characters; the characters a user types here
Chars == {" ", "a", "A", "b"}

\* e.target.value: the empty string, the strings of one character, and
\* those of two characters that end in "a" or in a blank
Words == {<<>>} \cup {<<c>> : c \in Chars}
           \cup {<<c, d>> : c \in Chars, d \in {"a", " "}}

\* the suggestions offered: lower-case words without blanks
suggestions == {<<"a">>, <<"b", "a">>}

\* String.prototype.trim(): the blanks at both ends are removed
RECURSIVE trim(_)
trim(s) ==
  IF s = <<>> THEN s
  ELSE IF Head(s) = " " THEN trim(Tail(s))
  ELSE IF s[Len(s)] = " " THEN trim(SubSeq(s, 1, Len(s) - 1))
  ELSE s

\* String.prototype.toLowerCase()
toLowerCase(s) == [i \in DOMAIN s |-> IF s[i] = "A" THEN "a" ELSE s[i]]

\* String.prototype.includes() and Array.prototype.includes()
includes(s, x) ==
  \E i \in 1..(Len(s) + 1) :
    i + Len(x) - 1 <= Len(s) /\ SubSeq(s, i, i + Len(x) - 1) = x

includesTag(tags_, tag) == \E i \in DOMAIN tags_ : tags_[i] = tag

\* the suggestions that contain the input and are not tags yet
filteredSuggestions ==
  {s \in suggestions :
     /\ includes(toLowerCase(s), toLowerCase(tagInput.inputValue))
     /\ ~includesTag(tagInput.tags, s)}

\* no addTag or removeTag was called in the last event
NoCall == [fn |-> "none", tag |-> <<>>]

\* an addTag that does not look for the tag in the list
addTagAgain(ti, tag) ==
  LET trimmedTag == toLowerCase(trim(tag)) IN
  IF trimmedTag # <<>> /\ Len(ti.tags) < maxTags
  THEN [tags |-> Append(ti.tags, trimmedTag), inputValue |-> <<>>,
        call |-> [fn |-> "addTag", tag |-> tag]]
  ELSE [ti EXCEPT !.call = [fn |-> "addTag", tag |-> tag]]

\* addTag: onChange([...tags, trimmedTag]) and setInputValue(''), if
\* trimmedTag && !tags.includes(trimmedTag) && tags.length < maxTags; the
\* parent hands the list of onChange back as the tags prop
addTag(ti, tag) ==
  LET trimmedTag == toLowerCase(trim(tag)) IN
  IF /\ trimmedTag # <<>>
     /\ ~includesTag(ti.tags, trimmedTag)
     /\ Len(ti.tags) < maxTags
  THEN [tags |-> Append(ti.tags, trimmedTag), inputValue |-> <<>>,
        call |-> [fn |-> "addTag", tag |-> tag]]
  ELSE [ti EXCEPT !.call = [fn |-> "addTag", tag |-> tag]]

\* removeTag: onChange(tags.filter((tag) => tag !== tagToRemove))
removeTag(ti, tagToRemove) ==
  [ti EXCEPT !.tags = SelectSeq(@, LAMBDA tag : tag # tagToRemove),
             !.call = [fn |-> "removeTag", tag |-> tagToRemove]]

\* the component is mounted with its tags prop, before any event: a list
\* without duplicates of at most maxTags entries; useState('')
TagInput(tags_) ==
  /\ tagInput = [tags |-> <<>>, inputValue |-> <<>>, call |-> NoCall]
  /\ tagInput' = [tags |-> tags_, inputValue |-> <<>>, call |-> NoCall]
  /\ UNCHANGED <<users, sessions, questions, answers, votes, reqs, response,
                 nextAnswerId, calls, now, revoked, tagTables, votingButtons>>

\* onChange of the Input, which is rendered while tags.length < maxTags:
\* setInputValue(e.target.value)
handleChange(value) ==
  /\ Len(tagInput.tags) < maxTags
  /\ tagInput' = [tagInput EXCEPT !.inputValue = value, !.call = NoCall]
  /\ UNCHANGED <<users, sessions, questions, answers, votes, reqs, response,
                 nextAnswerId, calls, now, revoked, tagTables, votingButtons>>

\* handleKeyDown of the Input
handleKeyDown(key) ==
  /\ Len(tagInput.tags) < maxTags
  /\ tagInput' =
       IF key \in {"Enter", "Tab"}
       THEN IF trim(tagInput.inputValue) # <<>>
            THEN addTag(tagInput, tagInput.inputValue)
            ELSE [tagInput EXCEPT !.call = NoCall]
       ELSE IF /\ key = "Backspace"
               /\ tagInput.inputValue = <<>>
               /\ Len(tagInput.tags) > 0
       THEN removeTag(tagInput, tagInput.tags[Len(tagInput.tags)])
       ELSE [tagInput EXCEPT !.call = NoCall]
  /\ UNCHANGED <<users, sessions, questions, answers, votes, reqs, response,
                 nextAnswerId, calls, now, revoked, tagTables, votingButtons>>

\* onClick={() => addTag(suggestion)} of a suggestion shown
clickSuggestion(suggestion) ==
  /\ suggestion \in filteredSuggestions
  /\ tagInput' = addTag(tagInput, suggestion)
  /\ UNCHANGED <<users, sessions, questions, answers, votes, reqs, response,
                 nextAnswerId, calls, now, revoked, tagTables, votingButtons>>

\* onClick={() => removeTag(tag)} of the badge of a tag
clickRemove(tag) ==
  /\ includesTag(tagInput.tags, tag)
  /\ tagInput' = removeTag(tagInput, tag)
  /\ UNCHANGED <<users, sessions, questions, answers, votes, reqs, response,
                 nextAnswerId, calls, now, revoked, tagTables, votingButtons>>

(* ---- a widget mounted with no tag or one tag, and any events on it -- *)
TagInputNext ==
  \/ \E w \in Words : TagInput(<<w>>)
  \/ \E value \in Words : handleChange(value)
  \/ \E key \in {"Enter", "Tab", "Backspace"} : handleKeyDown(key)
  \/ \E s \in suggestions : clickSuggestion(s)
  \/ \E w \in Words : clickRemove(w)

SpecTagInput == Init /\ [][TagInputNext]_vars

(* ============================ properties ============================== *)
RECURSIVE SumValues(_)
SumValues(vs) ==
  IF vs = {} THEN 0
  ELSE LET v == CHOOSE x \in vs : TRUE IN v.value + SumValues(vs \ {v})

VotesIn(vs, targetType, targetId) ==
  {v \in vs : v.target_type = targetType /\ v.target_id = targetId}

VotesOn(targetType, targetId) == VotesIn(votes, targetType, targetId)

VotesOnAnswersOf(userId) ==
  {v \in votes : /\ v.target_type = "answer"
                 /\ v.target_id \in DOMAIN answers
                 /\ answers[v.target_id].author_id = userId}

StoredVotes(qs, as, targetType, targetId) ==
  IF targetType = "question" THEN qs[targetId].votes ELSE as[targetId].votes

\* I1 for one target, in the store <<qs, as, vs>>
LedgerConsistentIn(qs, as, vs, targetType, targetId) ==
  TargetExists(qs, as, targetType, targetId)
    => StoredVotes(qs, as, targetType, targetId)
         = SumValues(VotesIn(vs, targetType, targetId))

LedgerConsistentAt(targetType, targetId) ==
  LedgerConsistentIn(questions, answers, votes, targetType, targetId)

\* I1
LedgerConsistent ==
  /\ \A q \in DOMAIN questions : LedgerConsistentAt("question", q)
  /\ \A a \in DOMAIN answers : LedgerConsistentAt("answer", a)

\* I2: reputations start at 0, so the net change is the value itself
ReputationConsistent ==
  \A u \in Users : users[u].reputation = SumValues(VotesOnAnswersOf(u))

AcceptedIn(as, questionId) ==
  {a \in DOMAIN as : as[a].question_id = questionId /\ as[a].is_accepted}

Accepted(questionId) == AcceptedIn(answers, questionId)

\* p's request is answered by this step
Returns(p) == reqs[p].pc # "idle" /\ reqs'[p].pc = "idle"

\* C1: serial castVote calls: after every completed call each target's votes
\* counter equals the sum of the values of the Vote rows held for it
C1_SerialLedgerConsistency == Quiescent => LedgerConsistent

C1_Witness ==
  /\ Quiescent
  /\ response = [op |-> "vote", res |-> "updated"]
  /\ \E a \in DOMAIN answers : answers[a].votes = -1
  /\ \E q \in DOMAIN questions : questions[q].votes = 1

\* C2: castVote calls by distinct users, interleaved: when a call returns,
\* the votes counter of its target equals the sum of the Vote rows held for it
C2_ConcurrentLedgerConsistency ==
  [][\A p \in Procs :
       (/\ Returns(p) /\ reqs[p].op = "vote"
        /\ response'.res \in {"created", "updated", "removed"})
         => LedgerConsistentIn(questions', answers', votes',
                               reqs[p].targetType, reqs[p].targetId)]_vars

\* C3: no state between the statements of a castVote call has the Vote row
\* written while the votes counter and the reputation do not reflect it (any
\* state can be read by GET /votes/:targetType/:targetId, a single SELECT)
C3_LedgerAndCountersAtomic ==
  \A p \in Procs :
    (reqs[p].op = "vote" /\ reqs[p].pc \in {"count", "author", "reputation"})
      => /\ LedgerConsistentAt(reqs[p].targetType, reqs[p].targetId)
         /\ ReputationConsistent

\* C4: N interleaved +1 calls by N distinct users, none the author, on an
\* answer none of them has voted on: once they have returned, the answer's
\* votes and its author's reputation have both grown by exactly N
C4_ConcurrentUpvotes ==
  Quiescent => /\ answers[1].votes = calls
               /\ users[answers[1].author_id].reputation = calls
               /\ Cardinality(VotesOn("answer", 1)) = calls

C4_Witness ==
  /\ Quiescent
  /\ calls = NUsers - 1
  /\ answers[1].votes = NUsers - 1

\* C5: an INSERT that hits the unique key of a Vote row the same user wrote
\* meanwhile is applied as an update or a toggle of that row instead
C5_DuplicateInsertAppliedAsUpdate ==
  [][\A p \in Procs :
       LET r == reqs[p]
           held == SelectVotes(votes, r.userId, r.targetId, r.targetType)
       IN  (/\ r.op = "vote" /\ r.pc = "ledger" /\ r.branch = "created"
            /\ reqs'[p].pc = "count"
            /\ held # {})
             => \A v \in held :
                  votes' = IF v.value = r.value
                           THEN DeleteVote(votes, v.id)
                           ELSE UpdateVoteValue(votes, v.id, r.value)]_vars

\* C6: serial castVote calls: after every completed call each user's
\* reputation has changed by the sum of the Vote rows held on that user's answers
C6_SerialReputationConsistency == Quiescent => ReputationConsistent

C6_Witness ==
  /\ Quiescent
  /\ response = [op |-> "vote", res |-> "removed"]
  /\ \E u \in Users : users[u].reputation = -1
  /\ Cardinality(VotesOn("answer", 1)) = 1

\* C7: serial createAnswer, acceptAnswer, deleteAnswer: every question has at
\* most one accepted answer
C7_AtMostOneAccepted ==
  \A q \in DOMAIN questions : Cardinality(Accepted(q)) <= 1

C7_Witness ==
  /\ Quiescent
  /\ response = [op |-> "accept", res |-> "200"]
  /\ \E a, b \in DOMAIN answers :
       /\ a # b
       /\ answers[a].question_id = answers[b].question_id
       /\ answers[b].is_accepted /\ ~answers[a].is_accepted
       /\ questions[answers[b].question_id].is_answered

\* C8: while acceptAnswer calls on two answers of one question are under
\* way, no step leads to two accepted answers of the question, and none
\* leaves the question, its accepted answer still there, without an accepted
\* answer
C8_AcceptAtomic ==
  [][\A q \in DOMAIN questions :
       (\E p1, p2 \in Procs :
          /\ reqs[p1].op = "accept" /\ reqs[p2].op = "accept"
          /\ reqs[p1].questionId = q /\ reqs[p2].questionId = q
          /\ reqs[p1].targetId # reqs[p2].targetId) =>
       /\ Cardinality(AcceptedIn(answers', q)) <= 1
       /\ (\E a \in Accepted(q) : a \in DOMAIN answers')
            => AcceptedIn(answers', q) # {}]_vars

\* C9: serial createAnswer, acceptAnswer, deleteAnswer: between calls
\* is_answered is true iff some existing answer of the question is accepted
C9_AnsweredIffAccepted ==
  Quiescent =>
    \A q \in DOMAIN questions : questions[q].is_answered <=> Accepted(q) # {}

\* C10: acceptAnswer on B by the question's author: no statement of the call
\* changes an answer of another question, and when the call returns B is the
\* one accepted answer of the question and the question is_answered
C10_AcceptReplaces ==
  [][\A p \in Procs :
       LET r == reqs[p] IN
       (r.op = "accept" /\ reqs'[p] # r) =>
         /\ \A a \in DOMAIN answers :
              answers[a].question_id # r.questionId
                => a \in DOMAIN answers' /\ answers'[a] = answers[a]
         /\ Returns(p) => /\ AcceptedIn(answers', r.questionId) = {r.targetId}
                          /\ questions'[r.questionId].is_answered]_vars

\* B's acceptance is under way while A is the accepted answer, and another
\* question has an accepted answer of its own
C10_Witness ==
  \E p \in Procs, a \in DOMAIN answers, c \in DOMAIN answers :
    /\ reqs[p].op = "accept" /\ reqs[p].pc = "unaccept"
    /\ a # reqs[p].targetId
    /\ answers[a].question_id = reqs[p].questionId /\ answers[a].is_accepted
    /\ answers[c].question_id # reqs[p].questionId /\ answers[c].is_accepted

\* the tables of the store
Tables == <<users, questions, answers, votes>>

\* C11: a castVote whose caller is the author of the target is rejected with
\* Forbidden (403) and changes no Vote row, no votes counter and no
\* reputation, on questions and answers and for either value
C11_SelfVoteForbidden ==
  [][\A p \in Procs :
       LET r == reqs[p] IN
       (/\ r.op = "vote" /\ r.pc = "targetAuthor" /\ reqs'[p] # r
        /\ TargetExists(questions, answers, r.targetType, r.targetId)
        /\ TargetAuthor(questions, answers, r.targetType, r.targetId) = r.userId)
         => /\ Returns(p)
            /\ response' = [op |-> "vote", res |-> "403"]
            /\ Tables' = Tables]_vars

\* C12: a castVote or acceptAnswer call one of whose statements fails before
\* the call has written anything is answered with an error and writes
\* nothing afterwards, so that the tables are what they were before the call
C12_StoreFailureRollsBack ==
  [][\A p \in Procs :
       LET r == reqs[p] IN
       (/\ r.failedAt \in {"targetAuthor", "existingVote", "ledger", "unaccept"}
        /\ reqs'[p] # r)
         => /\ Tables' = Tables
            /\ Returns(p) => response'.res = "500"]_vars

\* the caller's row on the target of request r, as the SELECT of the call
\* read it: no row, or the row with that id and value
HeldBefore(r) ==
  IF r.existingVote.id = 0 THEN {}
  ELSE {[id |-> r.existingVote.id, user_id |-> r.userId,
         target_id |-> r.targetId, target_type |-> r.targetType,
         value |-> r.existingVote.value]}

\* every votes counter and every reputation of the store <<us, qs, as>> has
\* the value it had before the first vote was cast
CountersAsAtFirst(us, qs, as) ==
  /\ \A u \in DOMAIN us : us[u].reputation = 0
  /\ \A q \in DOMAIN qs : qs[q].votes = 0
  /\ \A a \in DOMAIN as : as[a].votes = 0

\* C13: a user without a vote on T casts v (created) and, with no call in
\* between, casts v again: the second call, which finds the row of the first,
\* returns removed, the row is deleted, and T's votes and the reputation of
\* T's author are what they were before the first call
C13_ToggleOff ==
  [][\A p \in Procs :
       LET r == reqs[p] IN
       r.op = "vote" =>
         /\ r.pc = "ledger"
              => SelectVotes(votes, r.userId, r.targetId, r.targetType)
                   = HeldBefore(r)
         /\ (/\ Returns(p) /\ r.pc \in {"count", "author", "reputation"}
             /\ r.existingVote.id # 0 /\ r.existingVote.value = r.value)
              => /\ response' = [op |-> "vote", res |-> "removed"]
                 /\ votes' = {}
                 /\ CountersAsAtFirst(users', questions', answers')]_vars

\* the second of two equal votes has returned
C13_Witness ==
  /\ Quiescent
  /\ calls = 2
  /\ response = [op |-> "vote", res |-> "removed"]
  /\ votes = {}

\* C14: a user holding a vote on T casts the opposite value: the call
\* returns updated, the row keeps its id and takes the new value, no row is
\* added or deleted, and T's votes and the reputation of T's author change
\* by exactly value - oldValue, that is by 2 or by -2
C14_ChangeInPlace ==
  [][\A p \in Procs :
       LET r == reqs[p]
           changing == /\ r.op = "vote" /\ reqs'[p] # r
                       /\ r.existingVote.id # 0
                       /\ r.existingVote.value # r.value
           author == answers[r.targetId].author_id
       IN
       /\ (changing /\ r.pc = "ledger")
            => votes' = (votes \ HeldBefore(r))
                          \cup {[v EXCEPT !.value = r.value] : v \in HeldBefore(r)}
       /\ (changing /\ r.pc = "count")
            => /\ StoredVotes(questions', answers', r.targetType, r.targetId)
                    - StoredVotes(questions, answers, r.targetType, r.targetId)
                    = r.value - r.existingVote.value
               /\ r.value - r.existingVote.value \in {2, -2}
       /\ (changing /\ r.pc = "reputation")
            => users'[author].reputation - users[author].reputation
                 = r.value - r.existingVote.value
       /\ (changing /\ Returns(p))
            => /\ response' = [op |-> "vote", res |-> "updated"]
               /\ Cardinality(votes') = 1
               /\ \A v \in votes' :
                    /\ v.id = r.existingVote.id /\ v.value = r.value
                    /\ StoredVotes(questions', answers', v.target_type,
                                   v.target_id) = v.value]_vars

\* a downvote has been changed into an upvote of an answer
C14_Witness ==
  /\ Quiescent
  /\ response = [op |-> "vote", res |-> "updated"]
  /\ \E v \in votes : v.value = 1 /\ v.target_type = "answer"
  /\ \E u \in Users : users[u].reputation = 1

\* C15: in every reachable state of castVote calls, one at a time or
\* interleaved, the ledger holds at most one Vote row for each
\* (user_id, target_type, target_id), and every row has the value +1 or -1
C15_LedgerUnique ==
  /\ \A v, w \in votes :
       (/\ v.user_id = w.user_id /\ v.target_type = w.target_type
        /\ v.target_id = w.target_id) => v = w
  /\ \A v \in votes : v.value \in {1, -1}

\* two calls of one user have both taken the create branch and both run
\* their INSERT, and the ledger holds one row of that user
C15_Witness ==
  \E p1, p2 \in Procs :
    /\ p1 # p2
    /\ reqs[p1].op = "vote" /\ reqs[p2].op = "vote"
    /\ reqs[p1].userId = reqs[p2].userId
    /\ reqs[p1].branch = "created" /\ reqs[p2].branch = "created"
    /\ reqs[p1].pc = "count" /\ reqs[p2].pc = "count"
    /\ reqs[p1].value # reqs[p2].value
    /\ Cardinality(SelectVotes(votes, reqs[p1].userId, 1, "answer")) = 1

C17_OnlyAuthorAccepts ==
  [][/\ \A p \in Procs :
          (reqs[p].op = "none" /\ reqs'[p].op = "accept")
            => questions[answers[reqs'[p].targetId].question_id].author_id
                 = reqs'[p].userId
     /\ (reqs' = reqs /\ response'.op = "accept")
          => response'.res \in {"403", "404"} /\ Tables' = Tables
     /\ \A a \in DOMAIN answers \cap DOMAIN answers' :
          (~answers[a].is_accepted /\ answers'[a].is_accepted)
            => \E p \in Procs :
                 /\ reqs[p].op = "accept" /\ reqs[p].targetId = a
                 /\ reqs[p].userId = questions[answers[a].question_id].author_id
     /\ \A q \in DOMAIN questions :
          (~questions[q].is_answered /\ questions'[q].is_answered)
            => \E p \in Procs :
                 /\ reqs[p].op = "accept" /\ reqs[p].questionId = q
                 /\ reqs[p].userId = questions[q].author_id]_vars

\* Forbidden is the answer to an acceptAnswer made while the question has
\* the answer its author accepted
C17_Witness ==
  /\ Quiescent
  /\ response = [op |-> "accept", res |-> "403"]
  /\ \E a \in DOMAIN answers :
       answers[a].is_accepted /\ questions[answers[a].question_id].is_answered
  /\ 3 \in DOMAIN answers

\* C18: the result of a successful castVote names the mutation its ledger
\* statement performs: created with v iff the caller had no row on the target
\* and has one with value v now, updated with v iff the caller had a row with
\* the opposite value and it has value v now, removed with value null iff
\* the caller had a row with value v and has none now
C18_ResultNamesMutation ==
  [][\A p \in Procs :
       LET r == reqs[p]
           before == SelectVotes(votes, r.userId, r.targetId, r.targetType)
           after == SelectVotes(votes', r.userId, r.targetId, r.targetType)
           data == ResponseData(r)
       IN
       (r.op = "vote" /\ r.pc = "ledger" /\ reqs'[p] # r) =>
         /\ data.action = "created"
              <=> /\ before = {}
                  /\ \E v \in after : v.value = r.value
         /\ data.action = "updated"
              <=> /\ \E v \in before : v.value = 0 - r.value
                  /\ \E v \in after : v.value = r.value
         /\ data.action = "removed"
              <=> /\ \E v \in before : v.value = r.value
                  /\ after = {}
         /\ data.value = IF after = {} THEN "null" ELSE r.value]_vars

\* rows of the table after, other than row id, are the rows of the table before
OtherRowsUnchanged(before, after, id) ==
  /\ DOMAIN after = DOMAIN before
  /\ \A i \in DOMAIN before : i # id => after[i] = before[i]

\* C20: a successful castVote by u on T mutates exactly one Vote row, that
\* of u on T, then the votes of T alone, then (T an answer) the reputation of
\* T's author alone; every other Vote row, every other target and user, and
\* the is_accepted and is_answered fields are left as they were
C20_VoteFrame ==
  [][\A p \in Procs :
       LET r == reqs[p]
           own(vs) == SelectVotes(vs, r.userId, r.targetId, r.targetType)
       IN
       (r.op = "vote" /\ reqs'[p] # r) =>
         CASE r.pc = "ledger" ->
                /\ own(votes') # own(votes)
                /\ votes' \ own(votes') = votes \ own(votes)
                /\ <<users', questions', answers'>> = <<users, questions, answers>>
           [] r.pc = "count" /\ r.targetType = "question" ->
                /\ questions'[r.targetId]
                     = [questions[r.targetId] EXCEPT !.votes = @ + BranchDelta(r)]
                /\ questions'[r.targetId].votes # questions[r.targetId].votes
                /\ OtherRowsUnchanged(questions, questions', r.targetId)
                /\ <<users', answers', votes'>> = <<users, answers, votes>>
           [] r.pc = "count" /\ r.targetType = "answer" ->
                /\ answers'[r.targetId]
                     = [answers[r.targetId] EXCEPT !.votes = @ + BranchDelta(r)]
                /\ answers'[r.targetId].votes # answers[r.targetId].votes
                /\ OtherRowsUnchanged(answers, answers', r.targetId)
                /\ <<users', questions', votes'>> = <<users, questions, votes>>
           [] r.pc = "reputation" ->
                /\ users'[r.authorId].reputation # users[r.authorId].reputation
                /\ OtherRowsUnchanged(users, users', r.authorId)
                /\ <<questions', answers', votes'>> = <<questions, answers, votes>>
           [] OTHER -> Tables' = Tables]_vars

\* C19: the reputation of a user changes only in the reputation statement of
\* a castVote on an answer: a castVote on a question, register (which
\* creates its user with reputation 0), login, logout, updateProfile,
\* changePassword, createQuestion, createAnswer, acceptAnswer and the view
\* of a question leave the reputation of every existing user as it was
C19_ReputationOnlyByAnswerVotes ==
  [][/\ DOMAIN users \subseteq DOMAIN users'
     /\ \A u \in DOMAIN users' \ DOMAIN users : users'[u].reputation = 0
     /\ \A u \in DOMAIN users :
          users'[u].reputation # users[u].reputation
            => \E p \in Procs :
                 /\ reqs[p].op = "vote" /\ reqs[p].targetType = "answer"
                 /\ reqs[p].pc = "reputation" /\ reqs'[p] # reqs[p]]_vars

\* user 2, whose answer was voted up, has updated the profile
C19_Witness ==
  /\ Quiescent
  /\ response = [op |-> "updateProfile", res |-> "200"]
  /\ users[2].reputation = 1
  /\ users[2].bio = 2

\* the request in slot p enters GET /questions/:id for question q in this step
ViewEnters(p, q) ==
  /\ reqs[p].pc = "idle"
  /\ reqs'[p].op = "viewQuestion"
  /\ reqs'[p].targetId = q

\* C21: every GET of an existing question adds exactly 1 to its views, whoever
\* calls and however the calls interleave; no other step changes the views of
\* a question, so views never decreases and k calls add exactly k
C21_ViewsCountCalls ==
  [][\A q \in DOMAIN questions :
       q \in DOMAIN questions' =>
         IF \E p \in Procs : ViewEnters(p, q)
         THEN questions'[q].views = questions[q].views + 1
         ELSE questions'[q].views = questions[q].views]_vars

\* two calls for question 1 are in flight together and both are counted
C21_Witness ==
  /\ \A p \in {1, 2} : reqs[p].op = "viewQuestion" /\ reqs[p].targetId = 1
  /\ questions[1].views = 2

\* the routes behind verifyToken that the model runs
Protected == {"vote", "accept", "logout", "updateProfile"}

\* a session row for exactly the token of r, of the user the token names, with
\* its expiry in the future
LiveSession(r) ==
  \E s \in sessions : /\ s.token = r.token
                      /\ s.user_id = r.token.userId
                      /\ s.expires_at > now

\* a protected handler runs its first statement, or answers before it
HandlerStarts ==
  \/ \E p \in Procs : Free(p) /\ reqs'[p].op \in Protected
  \/ /\ Quiescent
     /\ \A p \in Procs : reqs'[p].pc = "idle"
     /\ response'.op \in Protected
     /\ <<response, reqs, calls>>' # <<response, reqs, calls>>

\* C22: a request goes past verifyToken only with a validly signed token, an
\* existing user and a session row for that token and user that has not
\* expired; a protected handler starts only for such a request; every other
\* request is answered 401 and writes nothing
C22_OnlyLiveSessionsPass ==
  [][/\ HandlerStarts
        => \E p \in Procs : reqs[p].pc = "next" /\ reqs'[p] # reqs[p]
     /\ (response' # response /\ response'.op = "verifyToken")
        => /\ response'.res = "401"
           /\ Tables' = Tables
           /\ sessions' = sessions
     /\ \A p \in Procs :
       LET r == reqs[p] IN
       /\ (r.pc = "idle" /\ reqs'[p].op = "verifyToken")
            => /\ Verify(reqs'[p].token, now) = "ok"
               /\ reqs'[p].token.userId \in DOMAIN users
       /\ (r.pc # "next" /\ reqs'[p].pc = "next")
            => /\ r.op = "verifyToken"
               /\ r.token.signed
               /\ r.token.userId \in DOMAIN users
               /\ LiveSession(r)]_vars

\* user 1 has voted behind verifyToken, and a later request with a token whose
\* signature is still good is answered 401 because its session has expired
C22_Witness ==
  /\ votes # {}
  /\ response = [op |-> "verifyToken", res |-> "401"]
  /\ \E s \in sessions : /\ s.expires_at <= now
                         /\ Verify(s.token, now) = "ok"

\* the ledger without the identifiers of its rows
Ledger(vs) ==
  {[user_id |-> v.user_id, target_type |-> v.target_type,
    target_id |-> v.target_id, value |-> v.value] : v \in vs}

\* the calls of A and of B on one target leave the same store in both orders,
\* and each of them is answered in both orders as it is when made alone
Commute(st, A, B, targetType, targetId, va, vb) ==
  LET a == CastVote(st, A, targetType, targetId, va)
      b == CastVote(st, B, targetType, targetId, vb)
      ab == CastVote(a, B, targetType, targetId, vb)
      ba == CastVote(b, A, targetType, targetId, va)
  IN  /\ Ledger(ab.votes) = Ledger(ba.votes)
      /\ ab.questions = ba.questions
      /\ ab.answers = ba.answers
      /\ ab.users = ba.users
      /\ ab.action = b.action
      /\ ba.action = a.action

\* the trace of the specification on answer 1: A = user 1, B = user 3
TraceExample(st) ==
  LET s1 == CastVote(st, 1, "answer", 1, 1)
      s2 == CastVote(s1, 1, "answer", 1, 1)
      s3 == CastVote(s2, 1, "answer", 1, -1)
      s4 == CastVote(s3, 3, "answer", 1, 1)
  IN  /\ s1.action = "created" /\ s1.answers[1].votes = 1
      /\ s2.action = "removed" /\ s2.answers[1].votes = 0
      /\ s3.action = "created" /\ s3.answers[1].votes = -1
      /\ s4.answers[1].votes = 0

\* C23: in every state that serial calls reach, castVote calls of two
\* different users on one target commute: both orders leave the same ledger,
\* the same counters and the same reputation, and each call is answered as it
\* would be alone; from the first state the calls follow the trace of the
\* specification
C23_VotesCommute ==
  Quiescent =>
    /\ \A A \in Users, tt \in TargetTypes, va \in VoteValues,
          vb \in VoteValues :
         \A B \in Users \ {A},
            t \in (IF tt = "question" THEN DOMAIN questions
                                      ELSE DOMAIN answers) :
           Commute(Store, A, B, tt, t, va, vb)
    /\ votes = {} /\ calls = 0 => TraceExample(Store)

\* users 1 and 3 both hold a vote on answer 1, cast one after the other, and
\* the store is the one CastVote computes for the two calls
C23_Witness ==
  LET first == [Store EXCEPT
                  !.votes = {},
                  !.users = [u \in DOMAIN users |->
                               [users[u] EXCEPT !.reputation = 0]],
                  !.answers = [a \in DOMAIN answers |->
                                 [answers[a] EXCEPT !.votes = 0]]]
  IN
  /\ Quiescent
  /\ calls = 2
  /\ Cardinality(VotesOn("answer", 1)) = 2
  /\ answers[1].votes = 0
  /\ response = [op |-> "vote", res |-> "created"]
  /\ \E va \in VoteValues :
       LET s == CastVote(CastVote(first, 1, "answer", 1, va),
                         3, "answer", 1, 0 - va)
       IN  /\ votes = s.votes
           /\ answers = s.answers
           /\ users = s.users

\* C24: GET /users/:id/votes answers 200 with exactly the Vote rows of :id
\* when the caller that verifyToken has let through is :id; for any other
\* caller it answers 403 and returns no row, so every row it returns is a
\* vote of the caller
C24_OwnVotesOnly ==
  [][\A p \in Procs :
       (/\ reqs[p].pc = "next" /\ reqs'[p].pc = "idle"
        /\ response'.op = "userVotes")
         => LET caller == reqs[p].userId IN
            /\ \A v \in response'.data : v.user_id = caller
            /\ IF response'.id = caller
               THEN /\ response'.res = "200"
                    /\ response'.data = {v \in votes : v.user_id = caller}
               ELSE /\ response'.res = "403"
                    /\ response'.data = {}]_vars

\* user 3 has asked for the votes of user 1, who holds one, and was refused
C24_Witness ==
  /\ \E v \in votes : v.user_id = 1
  /\ response = [op |-> "userVotes", res |-> "403", id |-> 1, data |-> {}]
  /\ \E s \in sessions : s.user_id = 3

\* C25: after any serial sequence of castVote, deleteAnswer and deleteQuestion
\* calls every Vote row has an existing target, and the reputation of every
\* user is the sum of the Vote values on that user's existing answers
C25_VotesHaveTargets ==
  Quiescent =>
    /\ \A v \in votes :
         IF v.target_type = "question" THEN v.target_id \in DOMAIN questions
                                       ELSE v.target_id \in DOMAIN answers
    /\ \A u \in DOMAIN users :
         users[u].reputation = SumValues(VotesOnAnswersOf(u))

\* C26: once logout with token t has answered with success no request that
\* carries t goes past verifyToken again, whatever logins follow, and the
\* logout deletes no session of another token.
C26_LogoutIsFinal ==
  /\ [][\A p \in Procs :
          (Passed(p)' /\ ~Passed(p)) => reqs'[p].token \notin revoked]_vars
  /\ [][\A s \in sessions :
          s \notin sessions' =>
            /\ response'.op = "logout"
            /\ s.token = response'.token]_vars

\* C27: a tag is deleted only if no question uses it: a step that removes a
\* tag row starts in a state where no question_tags row refers to the tag,
\* and it removes no question_tags row; this also with a createQuestion or
\* an updateQuestion linking the tag between deleteTag's usage check and its
\* DELETE, and with a usage query that fails.
C27_DeleteOnlyUnusedTags ==
  [][\A t \in DOMAIN tags :
       t \notin DOMAIN tags' =>
         /\ CountQuestionTags(question_tags, t) = 0
         /\ question_tags' = question_tags]_vars

\* C28: when no request is in flight, after createQuestion, updateQuestion
\* with a tags list, deleteQuestion and createTag calls that came one at a
\* time, the count of every tag is the number of question_tags rows that
\* refer to it.
C28_TagCountIsUsage ==
  Quiescent =>
    \A t \in DOMAIN tags :
      tags[t].count = CountQuestionTags(question_tags, t)

\* what a vote adds to the displayed number: up = +1, down = -1, none = 0
Contribution(vote) ==
  IF vote = "up" THEN 1 ELSE IF vote = "down" THEN 0 - 1 ELSE 0

\* C29: after any clicks on the local VotingButtons widget the displayed
\* votes is initialVotes minus the contribution of the initial userVote plus
\* the contribution of currentVote, so it is never further than 1 from that
\* base; a click on the selected direction clears currentVote and a click on
\* the other direction selects it.
C29_DisplayFollowsCurrentVote ==
  /\ [](LET base == votingButtons.initialVotes
                      - Contribution(votingButtons.userVote)
        IN /\ votingButtons.votes
                = base + Contribution(votingButtons.currentVote)
           /\ votingButtons.votes - base \in {0 - 1, 0, 1})
  /\ [][(votingButtons' # votingButtons
           /\ votingButtons'.voteType \in VoteTypes) =>
          votingButtons'.currentVote =
            IF votingButtons.currentVote = votingButtons'.voteType
            THEN "null" ELSE votingButtons'.voteType]_vars

\* a widget mounted with a down vote shows two more after a click on up, and
\* the same widget shows its base again after a second click on up
C29_Witness ==
  /\ votingButtons.userVote = "down"
  /\ votingButtons.voteType = "up"
  /\ votingButtons.currentVote = "null"
  /\ votingButtons.votes = votingButtons.initialVotes + 1

\* list s without its i-th entry
Without(s, i) == SubSeq(s, 1, i - 1) \o SubSeq(s, i + 1, Len(s))

\* C30: from a TagInput mounted with a tag list that has no duplicates and
\* at most maxTags entries, after any addTag, removeTag and keyboard events
\* the list passed to onChange has no duplicates and at most maxTags
\* entries; an addTag(tag) leaves the list as it is or appends the trimmed,
\* lower-cased tag, which is not empty; a removeTag(x) takes exactly x out
\* of the list and leaves the order of the rest.
C30_TagListStaysClean ==
  /\ [](/\ \A i \in DOMAIN tagInput.tags, j \in DOMAIN tagInput.tags :
             tagInput.tags[i] = tagInput.tags[j] => i = j
        /\ Len(tagInput.tags) <= maxTags)
  /\ [][(tagInput' # tagInput /\ tagInput'.call.fn = "addTag") =>
          \/ tagInput'.tags = tagInput.tags
          \/ /\ tagInput'.tags =
                  Append(tagInput.tags, toLowerCase(trim(tagInput'.call.tag)))
             /\ toLowerCase(trim(tagInput'.call.tag)) # <<>>]_vars
  /\ [][(tagInput' # tagInput /\ tagInput'.call.fn = "removeTag") =>
          \/ /\ tagInput'.tags = tagInput.tags
             /\ ~includesTag(tagInput.tags, tagInput'.call.tag)
          \/ \E i \in DOMAIN tagInput.tags :
               /\ tagInput.tags[i] = tagInput'.call.tag
               /\ tagInput'.tags = Without(tagInput.tags, i)]_vars

\* the list is full, and its last entry was added as the trimmed,
\* lower-cased form of an input that was neither trimmed nor lower-case
C30_Witness ==
  /\ Len(tagInput.tags) = maxTags
  /\ tagInput.call.fn = "addTag"
  /\ tagInput.call.tag = <<"A", " ">>
  /\ tagInput.tags[maxTags] = <<"a">>
  /\ tagInput.inputValue = <<>>

====
